---- MODULE Spec2Model ----
(***************************************************************************)
(* A model of koinos-p2p: the peer error-score handler (PeerErrorHandler)  *)
(* and the connection manager (ConnectionManager).                         *)
(*                                                                         *)
(* Two specifications share the module:                                    *)
(*   SpecScore  the PeerErrorHandler task, its callers and its clock       *)
(*   SpecConn   the ConnectionManager, its tasks and the host              *)
(* Each leaves the other component's variables at their initial values.    *)
(*                                                                         *)
(* Time is counted in ticks.  The decay of a score is modelled in exact    *)
(* real arithmetic (the code computes it in float64).                      *)
(***************************************************************************)
EXTENDS Integers, Sequences, FiniteSets, Bags, TLC

\* ------------------------------------------------------------------ bounds
MaxTime == 2
MaxScore == 4
MaxEmit == 1

\* peer IDs
Peers == {"p1", "p2"}

\* the error values getScoreForError tells apart, in the order of its switch;
\* "ErrOther" is any error that matches none of them
ErrorKinds ==
    << "ErrTransactionApplication", "ErrBlockApplication", "ErrDeserialization",
       "ErrBlockIrreversibility", "ErrPeerRPC", "ErrPeerRPCTimeout",
       "ErrChainIDMismatch", "ErrChainNotConnected", "ErrCheckpointMismatch",
       "ErrLocalRPC", "ErrLocalRPCTimeout", "ErrSerialization",
       "ErrProcessRequestTimeout", "ErrOther" >>

Errors == { ErrorKinds[i] : i \in 1..Len(ErrorKinds) }

\* the errors the peers of the model are reported with: a routine one, one
\* that disconnects at once, and one that takes the default branch of the switch
ReportedErrors ==
    { "ErrTransactionApplication", "ErrChainIDMismatch", "ErrOther" }

\* the sum of f over the peers
RECURSIVE SumOver(_, _)
SumOver(f, S) ==
    IF S = {} THEN 0
    ELSE LET x == CHOOSE y \in S : TRUE IN f[x] + SumOver(f, S \ {x})

Callers == {"c1"}

\* PeerErrorHandlerOptions, in ticks and score points
OptionSets ==
    { [ ErrorScoreThreshold              |-> 4,
        ErrorScoreDecayHalflife          |-> 2,
        TransactionApplicationErrorScore |-> 1,
        BlockApplicationErrorScore       |-> 2,
        DeserializationErrorScore        |-> 2,
        BlockIrreversibilityErrorScore   |-> 2,
        PeerRPCErrorScore                |-> 1,
        PeerRPCTimeoutErrorScore         |-> 1,
        ChainIDMismatchErrorScore        |-> 4,
        ChainNotConnectedErrorScore      |-> 4,
        CheckpointMismatchErrorScore     |-> 4,
        LocalRPCErrorScore               |-> 1,
        LocalRPCTimeoutErrorScore        |-> 1,
        SerializationErrorScore          |-> 1,
        ProcessRequestTimeoutErrorScore  |-> 1,
        UnknownErrorScore                |-> 2 ] }

VARIABLES
    opts,               \* PeerErrorHandler.opts
    errorScores,        \* PeerErrorHandler.errorScores: peer.ID -> errorScoreRecord
    now,                \* the clock time.Now() reads
    ctxDone,            \* the scope given to Start (and to the manager) is cancelled
    handlerPc,          \* the goroutine of PeerErrorHandler.Start
    callers,            \* the callers of CanConnect
    resultChan,         \* each caller's reply channel (capacity 1)
    disconnectGo,       \* per peer, the goroutines of handleError blocked in their select
    disconnectPeerChan, \* per peer, how often its ID was sent on disconnectPeerChan
    perr                \* the report handleError is working on, if any

VARIABLES
    initialPeers,         \* ConnectionManager.initialPeers (its keys)
    connectedPeers,       \* ConnectionManager.connectedPeers (its keys)
    liveWorkers,          \* per peer, the PeerConnections started whose cancel was not called
    events,               \* how many Connected and Disconnected events were handled
    startGo,              \* the goroutine of ConnectionManager.Start
    mgrPc,                \* the goroutine of managerLoop
    initGo,               \* the goroutine of connectInitialPeers
    reconnectGo,          \* the reconnection goroutines of handleDisconnected
    signalGo,             \* per peer, the goroutines blocked sending on signalPeerDisconnectChan
    hostConns             \* per peer, the open connections of the host, where the
                          \* events are those of a host whose connections are followed

VARIABLES
    node                  \* the KoinosP2PNode, its host and its background tasks

scoreVars == << opts, errorScores, now, handlerPc, callers, resultChan,
                disconnectGo, disconnectPeerChan, perr >>

connVars == << initialPeers, connectedPeers, liveWorkers, events, startGo, mgrPc,
               initGo, reconnectGo, signalGo, hostConns >>

VARIABLES
    nodeUpdateGo,         \* the goroutine of PeerHandler.nodeUpdateLoop: value, hasValue
    peerLoop,             \* the goroutine of peerHandlerLoop and h.lastNodeUpdate
    updatesSent,          \* how many NodeUpdates were sent on h.nodeUpdateChan
    requestsSent,         \* how many requests were sent on h.downloadRequestChan
    downloadGo,           \* the goroutines requestDownload spawned that still run
    downloadResponseChan, \* the responses sent on h.downloadResponseChan, in order
    errChan,              \* the PeerErrors sent on h.errChan, in order
    pollFailed            \* some peerHandlerCycle returned an error

VARIABLES
    localCall,            \* the last call of a method of KoinosRPC and what it returned
    ancestorCall,         \* the last call of PeerRPCService.GetAncestorBlockID
    message               \* the last pubsub message and the ID the node gave it

VARIABLES
    tracker               \* the sync tracker: the heads it knows and its last broadcast

nodeVars == << node >>

rpcVars == << localCall, ancestorCall >>

gossipVars == << message >>

trackerVars == << tracker >>

peerVars == << nodeUpdateGo, peerLoop, updatesSent, requestsSent, downloadGo,
               downloadResponseChan, errChan, pollFailed >>

vars == << scoreVars, connVars, nodeVars, peerVars, rpcVars, gossipVars,
          trackerVars, ctxDone >>

\* ------------------------------------------------------ pure functions

\* uint64(float64(score) * math.Exp(-1 * (math.Log(2)/halflife) * dt)):
\* the largest m with m <= score * 2^(-dt/halflife), that is with
\* m^halflife * 2^dt <= score^halflife
DecayedScore(score, dt, halflife) ==
    CHOOSE m \in 0..score :
        /\ (m ^ halflife) * (2 ^ dt) <= score ^ halflife
        /\ ((m + 1) ^ halflife) * (2 ^ dt) > score ^ halflife

\* mutant: the exponent has the wrong sign, so the score grows with time
decayErrorScore_signError(record, o, t) ==
    [ lastUpdate |-> t,
      score      |-> CHOOSE m \in 0..(record.score * (2 ^ (t - record.lastUpdate))) :
                        DecayedScore(m, t - record.lastUpdate,
                                     o.ErrorScoreDecayHalflife) = record.score ]

decayErrorScore(record, o, t) ==
    [ lastUpdate |-> t,
      score      |-> DecayedScore(record.score, t - record.lastUpdate,
                                  o.ErrorScoreDecayHalflife) ]

getScoreForError(o, err) ==
    CASE err = "ErrTransactionApplication" -> o.TransactionApplicationErrorScore
      [] err = "ErrBlockApplication"       -> o.BlockApplicationErrorScore
      [] err = "ErrDeserialization"        -> o.DeserializationErrorScore
      [] err = "ErrBlockIrreversibility"   -> o.BlockIrreversibilityErrorScore
      [] err = "ErrPeerRPC"                -> o.PeerRPCErrorScore
      [] err = "ErrPeerRPCTimeout"         -> o.PeerRPCTimeoutErrorScore
      [] err = "ErrChainIDMismatch"        -> o.ChainIDMismatchErrorScore
      [] err = "ErrChainNotConnected"      -> o.ChainNotConnectedErrorScore
      [] err = "ErrCheckpointMismatch"     -> o.CheckpointMismatchErrorScore
      [] err = "ErrLocalRPC"               -> o.LocalRPCErrorScore
      [] err = "ErrLocalRPCTimeout"        -> o.LocalRPCTimeoutErrorScore
      [] err = "ErrSerialization"          -> o.SerializationErrorScore
      [] err = "ErrProcessRequestTimeout"  -> o.ProcessRequestTimeoutErrorScore
      [] OTHER                             -> o.UnknownErrorScore

\* the map with the entry of id set to record
WithRecord(scores, id, record) ==
    [ q \in (DOMAIN scores) \cup {id} |-> IF q = id THEN record ELSE scores[q] ]

\* handleCanConnect: the map after the call (the record is decayed in place)
canConnectScores(scores, o, t, id) ==
    IF id \in DOMAIN scores
    THEN WithRecord(scores, id, decayErrorScore(scores[id], o, t))
    ELSE scores

\* mutant: a score equal to the threshold still connects
handleCanConnect_atThreshold(scores, o, t, id) ==
    IF id \in DOMAIN scores
    THEN decayErrorScore(scores[id], o, t).score <= o.ErrorScoreThreshold
    ELSE TRUE

\* handleCanConnect: the value returned
handleCanConnect(scores, o, t, id) ==
    IF id \in DOMAIN scores
    THEN decayErrorScore(scores[id], o, t).score < o.ErrorScoreThreshold
    ELSE TRUE

\* InterceptAccept: true for every connection, whoever the remote peer is
InterceptAccept(conn) == TRUE

\* mutant: the weight is added to the stored score without decaying it first
handleErrorScores_noDecay(scores, o, t, id, err) ==
    IF id \in DOMAIN scores
    THEN WithRecord(scores, id,
             [ lastUpdate |-> t,
               score      |-> scores[id].score + getScoreForError(o, err) ])
    ELSE WithRecord(scores, id,
             [ lastUpdate |-> t, score |-> getScoreForError(o, err) ])

\* handleError: the map after the call
handleErrorScores(scores, o, t, id, err) ==
    IF id \in DOMAIN scores
    THEN LET record == decayErrorScore(scores[id], o, t)
         IN  WithRecord(scores, id,
                 [ record EXCEPT !.score = @ + getScoreForError(o, err) ])
    ELSE WithRecord(scores, id,
             [ lastUpdate |-> t, score |-> getScoreForError(o, err) ])

\* a handler that takes the next message while handleError still runs
handlerReceives_whileHandling(pc, busy) == pc = "running"

\* the goroutine of Start is at its select: it runs, and handleError, which
\* it calls itself, has returned
handlerReceives(pc, busy) == pc = "running" /\ ~busy

\* mutant: a score equal to the threshold signals nothing
signalsDisconnect_aboveThreshold(scores, o, id) ==
    scores[id].score > o.ErrorScoreThreshold

\* handleError: whether the goroutine sending on disconnectPeerChan is spawned
signalsDisconnect(scores, o, id) ==
    scores[id].score >= o.ErrorScoreThreshold

\* ------------------------------------------------------------ SpecScore

\* The callers are the connection gate's InterceptPeerDial and InterceptSecured,
\* which pass context.Background(): their ctx.Done() never fires.
NotCalling == [ pc |-> "idle", id |-> "p1" ]

\* handleError is not running
NoReport == [ busy |-> FALSE, id |-> "p1", err |-> "ErrOther" ]

\* connectInitialPeers before Start spawned it
InitGoNotStarted ==
    [ pc |-> "notStarted", peersToConnect |-> {}, newlyConnectedPeers |-> {},
      todo |-> {}, sleepTimeSeconds |-> 1, attempts |-> 0, elapsed |-> 0 ]

\* the connection manager as NewConnectionManager returns it, with its seeds
ConnConstructed(seeds) ==
    /\ initialPeers = seeds
    /\ connectedPeers = {}
    /\ liveWorkers = [ p \in Peers |-> 0 ]
    /\ events = 0
    /\ startGo = [ pc |-> "notCalled", todo |-> {}, cur |-> "p1" ]
    /\ mgrPc = "notStarted"
    /\ initGo = InitGoNotStarted
    /\ reconnectGo = EmptyBag
    /\ signalGo = [ p \in Peers |-> 0 ]
    /\ hostConns = [ p \in Peers |-> 0 ]

\* the error handler as constructed by NewPeerErrorHandler
ScoreConstructed(o) ==
    /\ opts = o
    /\ errorScores = << >>
    /\ now = 0
    /\ handlerPc = "notStarted"
    /\ callers = [ c \in Callers |-> NotCalling ]
    /\ resultChan = [ c \in Callers |-> << >> ]
    /\ disconnectGo = [ p \in Peers |-> 0 ]
    /\ disconnectPeerChan = [ p \in Peers |-> 0 ]
    /\ perr = NoReport

\* NodeUpdate number k; number 0 is the zero value of the struct
Update(k) ==
    [ NodeHeight |-> k, InterestStartHeight |-> k,
      InterestNumBlocks |-> IF k = 0 THEN 0 ELSE 1 ]

\* NewBlockDownloadResponse before its fields are assigned
NoResponse == [ Topology |-> 0, PeerID |-> "", Block |-> "none", Err |-> "none" ]

\* the PeerHandler before nodeUpdateLoop and peerHandlerLoop are started
PeerConstructed ==
    /\ nodeUpdateGo = [ pc |-> "notStarted", hasValue |-> FALSE, value |-> Update(0) ]
    /\ peerLoop = [ pc |-> "notStarted", lastNodeUpdate |-> Update(0),
                    req |-> [ BlockHeight |-> 0, NumBlocks |-> 0 ], todo |-> 0,
                    reply |-> << >>, forwarded |-> << >> ]
    /\ updatesSent = 0
    /\ requestsSent = 0
    /\ downloadGo = {}
    /\ downloadResponseChan = << >>
    /\ errChan = << >>
    /\ pollFailed = FALSE

\* no call was made and no message was seen
NoCall == [ fn |-> "none" ]

NoMessage == [ Topic |-> "none" ]

RpcConstructed ==
    /\ localCall = NoCall
    /\ ancestorCall = NoCall

GossipConstructed == message = NoMessage

\* no interest was broadcast yet
NoInterest == [ NodeHeight |-> 0, InterestStartHeight |-> 0, InterestNumBlocks |-> 0 ]

\* the sync tracker knows no peer head and has broadcast nothing
TrackerConstructed(WindowSize) ==
    tracker = [ WindowSize |-> WindowSize, localHead |-> 0,
                peerHeads |-> [ p \in Peers |-> 0 ],
                interest |-> NoInterest ]

\* no KoinosP2PNode was created yet
NoNode ==
    [ pc |-> "none", ForceGossip |-> FALSE, hostClosed |-> FALSE,
      gossip |-> "off", sync |-> "notStarted", connectGo |-> "notStarted",
      published |-> 0, listenAddr |-> << >>, seed |-> "", created |-> 0,
      prevAddr |-> << >> ]

\* a handler task that makes the send on disconnectPeerChan itself
awaitsEmission_inline(emissions) == \E id \in Peers : emissions[id] > 0

\* handleError: whether the handler task waits for the emissions under way;
\* the select that sends is run by a goroutine handleError spawns
awaitsEmission(emissions) == FALSE

InitScore ==
    /\ \E o \in OptionSets : ScoreConstructed(o)
    /\ ctxDone = FALSE
    /\ ConnConstructed({})
    /\ node = NoNode
    /\ PeerConstructed
    /\ RpcConstructed
    /\ GossipConstructed
    /\ TrackerConstructed(1)

\* PeerErrorHandler.Start: spawn the handler task
StartHandler ==
    /\ handlerPc = "notStarted"
    /\ handlerPc' = "running"
    /\ UNCHANGED << connVars, nodeVars, peerVars, rpcVars, gossipVars, trackerVars, perr >>
    /\ UNCHANGED << opts, errorScores, now, ctxDone, callers, resultChan,
                    disconnectGo, disconnectPeerChan >>

\* the handler task receives perr from peerErrorChan and runs handleError
RecvError(id, err) ==
    /\ handlerReceives(handlerPc, perr.busy)
    /\ ~awaitsEmission(disconnectGo)
    /\ UNCHANGED << connVars, nodeVars, peerVars, rpcVars, gossipVars, trackerVars, perr >>
    /\ UNCHANGED << opts, now, ctxDone, handlerPc, callers, resultChan,
                    disconnectPeerChan >>
    /\ errorScores' = handleErrorScores(errorScores, opts, now, id, err)
    /\ errorScores'[id].score <= MaxScore
    /\ IF signalsDisconnect(errorScores', opts, id)
       THEN /\ SumOver(disconnectGo, Peers)
                 + SumOver(disconnectPeerChan, Peers) < MaxEmit
            /\ disconnectGo' = [ disconnectGo EXCEPT ![id] = @ + 1 ]
       ELSE disconnectGo' = disconnectGo

\* CanConnect: the caller makes its reply channel and sends its request
CallCanConnect(c, id) ==
    /\ callers[c].pc = "idle"
    /\ callers' = [ callers EXCEPT ![c] = [ pc |-> "send", id |-> id ] ]
    /\ resultChan' = [ resultChan EXCEPT ![c] = << >> ]
    /\ UNCHANGED << connVars, nodeVars, peerVars, rpcVars, gossipVars, trackerVars, perr >>
    /\ UNCHANGED << opts, errorScores, now, ctxDone, handlerPc, disconnectGo,
                    disconnectPeerChan >>

\* the handler task receives the request of caller c from canConnectChan,
\* runs handleCanConnect and sends the result on the reply channel
RecvCanConnect(c) ==
    /\ handlerReceives(handlerPc, perr.busy)
    /\ ~awaitsEmission(disconnectGo)
    /\ callers[c].pc = "send"
    /\ errorScores' = canConnectScores(errorScores, opts, now, callers[c].id)
    /\ resultChan' = [ resultChan EXCEPT ![c] =
                         << handleCanConnect(errorScores, opts, now, callers[c].id) >> ]
    /\ callers' = [ callers EXCEPT ![c].pc = "recv" ]
    /\ UNCHANGED << connVars, nodeVars, peerVars, rpcVars, gossipVars, trackerVars, perr >>
    /\ UNCHANGED << opts, now, ctxDone, handlerPc, disconnectGo,
                    disconnectPeerChan >>

\* CanConnect: the caller receives the result and returns it
CallerReturn(c) ==
    /\ callers[c].pc = "recv"
    /\ resultChan[c] # << >>
    /\ callers' = [ callers EXCEPT ![c] = NotCalling ]
    /\ resultChan' = [ resultChan EXCEPT ![c] = << >> ]
    /\ UNCHANGED << connVars, nodeVars, peerVars, rpcVars, gossipVars, trackerVars, perr >>
    /\ UNCHANGED << opts, errorScores, now, ctxDone, handlerPc, disconnectGo,
                    disconnectPeerChan >>

\* the handler task sees ctx.Done() and returns
HandlerExit ==
    /\ handlerReceives(handlerPc, perr.busy)
    /\ ~awaitsEmission(disconnectGo)
    /\ ctxDone
    /\ handlerPc' = "exited"
    /\ UNCHANGED << connVars, nodeVars, peerVars, rpcVars, gossipVars, trackerVars, perr >>
    /\ UNCHANGED << opts, errorScores, now, ctxDone, callers, resultChan,
                    disconnectGo, disconnectPeerChan >>

\* a goroutine of handleError completes its send on disconnectPeerChan
DisconnectSend(id) ==
    /\ disconnectGo[id] > 0
    /\ disconnectGo' = [ disconnectGo EXCEPT ![id] = @ - 1 ]
    /\ disconnectPeerChan' = [ disconnectPeerChan EXCEPT ![id] = @ + 1 ]
    /\ UNCHANGED << connVars, nodeVars, peerVars, rpcVars, gossipVars, trackerVars, perr >>
    /\ UNCHANGED << opts, errorScores, now, ctxDone, handlerPc, callers,
                    resultChan >>

\* a goroutine of handleError sees ctx.Done() and gives up
DisconnectAbandon(id) ==
    /\ disconnectGo[id] > 0
    /\ ctxDone
    /\ disconnectGo' = [ disconnectGo EXCEPT ![id] = @ - 1 ]
    /\ UNCHANGED << connVars, nodeVars, peerVars, rpcVars, gossipVars, trackerVars, perr >>
    /\ UNCHANGED << opts, errorScores, now, ctxDone, handlerPc, callers,
                    resultChan, disconnectPeerChan >>

\* the clock advances
Tick ==
    /\ now < MaxTime
    /\ now' = now + 1
    /\ UNCHANGED << connVars, nodeVars, peerVars, rpcVars, gossipVars, trackerVars, perr >>
    /\ UNCHANGED << opts, errorScores, ctxDone, handlerPc, callers, resultChan,
                    disconnectGo, disconnectPeerChan >>

\* the scope is cancelled
CancelScope ==
    /\ ~ctxDone
    /\ ctxDone' = TRUE
    /\ UNCHANGED << connVars, nodeVars, peerVars, rpcVars, gossipVars, trackerVars, perr >>
    /\ UNCHANGED << opts, errorScores, now, handlerPc, callers, resultChan,
                    disconnectGo, disconnectPeerChan >>

NextScore ==
    \/ StartHandler
    \/ \E id \in Peers, err \in ReportedErrors : RecvError(id, err)
    \/ \E c \in Callers, id \in Peers : CallCanConnect(c, id)
    \/ \E c \in Callers : RecvCanConnect(c)
    \/ \E c \in Callers : CallerReturn(c)
    \/ HandlerExit
    \/ \E id \in Peers : DisconnectSend(id)
    \/ \E id \in Peers : DisconnectAbandon(id)
    \/ Tick
    \/ CancelScope

SpecScore == InitScore /\ [][NextScore]_vars

\* Whoever reads disconnectPeerChan keeps reading it, so a goroutine blocked in
\* its select proceeds; the handler task and the callers are scheduled.
FairScore ==
    /\ \A id \in Peers : WF_vars(DisconnectSend(id))
    /\ \A id \in Peers : WF_vars(DisconnectAbandon(id))

SpecScoreFair == SpecScore /\ FairScore

\* Nobody needs to read disconnectPeerChan: a goroutine blocked in its select
\* is scheduled when the scope is cancelled.
FairAbandon == \A id \in Peers : WF_vars(DisconnectAbandon(id))

SpecScoreUnread == SpecScore /\ FairAbandon


\* ---------------------------------------------------------- SpecHandler
\* The handler task at the grain of the statements of handleError, with the
\* options of the scenario: time in units of 60 s.

\* the largest score a report may leave in a run
MaxScenarioScore == 150

\* weight 100 for every kind, halflife 60 s (one tick), threshold 150
ScenarioOptions ==
    [ ErrorScoreThreshold              |-> 150,
      ErrorScoreDecayHalflife          |-> 1,
      TransactionApplicationErrorScore |-> 100,
      BlockApplicationErrorScore       |-> 100,
      DeserializationErrorScore        |-> 100,
      BlockIrreversibilityErrorScore   |-> 100,
      PeerRPCErrorScore                |-> 100,
      PeerRPCTimeoutErrorScore         |-> 100,
      ChainIDMismatchErrorScore        |-> 100,
      ChainNotConnectedErrorScore      |-> 100,
      CheckpointMismatchErrorScore     |-> 100,
      LocalRPCErrorScore               |-> 100,
      LocalRPCTimeoutErrorScore        |-> 100,
      SerializationErrorScore          |-> 100,
      ProcessRequestTimeoutErrorScore  |-> 100,
      UnknownErrorScore                |-> 100 ]

\* the errors reported in the scenario
ScenarioErrors == { "ErrPeerRPC", "ErrOther" }

InitHandler ==
    /\ ScoreConstructed(ScenarioOptions)
    /\ ctxDone = FALSE
    /\ ConnConstructed({})
    /\ node = NoNode
    /\ PeerConstructed
    /\ RpcConstructed
    /\ GossipConstructed
    /\ TrackerConstructed(1)

\* the handler task receives perr from peerErrorChan and handleError runs up
\* to p.decayErrorScore(record), which it calls if the peer has a record
TakeError(id, err) ==
    /\ handlerReceives(handlerPc, perr.busy)
    /\ handleErrorScores(errorScores, opts, now, id, err)[id].score <= MaxScenarioScore
    /\ signalsDisconnect(handleErrorScores(errorScores, opts, now, id, err), opts, id) =>
          SumOver(disconnectGo, Peers) + SumOver(disconnectPeerChan, Peers) < MaxEmit
    /\ perr' = [ busy |-> TRUE, id |-> id, err |-> err ]
    /\ errorScores' = canConnectScores(errorScores, opts, now, id)
    /\ UNCHANGED << connVars, nodeVars, peerVars, rpcVars, gossipVars, trackerVars >>
    /\ UNCHANGED << opts, now, ctxDone, handlerPc, callers, resultChan,
                    disconnectGo, disconnectPeerChan >>

\* handleError goes on: it adds the weight to the record, or makes the
\* record, and spawns the goroutine that signals the disconnect
FinishError ==
    /\ perr.busy
    /\ errorScores' =
          IF perr.id \in DOMAIN errorScores
          THEN WithRecord(errorScores, perr.id,
                   [ errorScores[perr.id] EXCEPT
                       !.score = @ + getScoreForError(opts, perr.err) ])
          ELSE WithRecord(errorScores, perr.id,
                   [ lastUpdate |-> now,
                     score      |-> getScoreForError(opts, perr.err) ])
    /\ disconnectGo' = IF signalsDisconnect(errorScores', opts, perr.id)
                       THEN [ disconnectGo EXCEPT ![perr.id] = @ + 1 ]
                       ELSE disconnectGo
    /\ perr' = NoReport
    /\ UNCHANGED << connVars, nodeVars, peerVars, rpcVars, gossipVars, trackerVars >>
    /\ UNCHANGED << opts, now, ctxDone, handlerPc, callers, resultChan,
                    disconnectPeerChan >>

NextHandler ==
    \/ StartHandler
    \/ \E id \in Peers, err \in ScenarioErrors : TakeError(id, err)
    \/ FinishError
    \/ \E c \in Callers, id \in Peers : CallCanConnect(c, id)
    \/ \E c \in Callers : RecvCanConnect(c)
    \/ \E c \in Callers : CallerReturn(c)
    \/ HandlerExit
    \/ \E id \in Peers : DisconnectSend(id)
    \/ \E id \in Peers : DisconnectAbandon(id)
    \/ Tick
    \/ CancelScope

SpecHandler == InitHandler /\ [][NextHandler]_vars

\* ------------------------------------------------------------- SpecConn

\* const maxSleepBackoff
maxSleepBackoff == 30

\* how many Connected and Disconnected events the host delivers in a run
MaxEvents == 3
\* how many connect attempts of one loop are counted, with the time they take
MaxAttempts == 7

\* the sets of seeds the manager is configured with
InitialPeerSets == { {}, {"p1"}, {"p1", "p2"} }

min(a, b) == IF a < b THEN a ELSE b

\* a backoff that doubles without the cap
nextSleep_uncapped(sleepTimeSeconds) == sleepTimeSeconds * 2

\* sleepTimeSeconds = min(maxSleepBackoff, sleepTimeSeconds*2)
nextSleep(sleepTimeSeconds) == min(maxSleepBackoff, sleepTimeSeconds * 2)

\* host.Connect(ctx, addr) returns nil or an error: nil when the dial succeeds
\* or the peer is connected already, an error when the dial fails or ctx is done
ConnectOutcomes == BOOLEAN

\* handleConnected that starts a worker for every Connected event
spawnsWorker_always(tracked, pid) == TRUE

\* handleConnected: whether a PeerConnection is created and started
spawnsWorker(tracked, pid) == pid \notin tracked

\* handleDisconnected that cancels and deletes every tracked peer
disconnectedPeers_all(tracked, pid) == tracked

\* handleDisconnected: the entries of connectedPeers whose cancel it calls and
\* which it deletes
disconnectedPeers(tracked, pid) == { pid }

\* a manager loop that returns at ctx.Done() without cancelling its workers
cancelledAtDone_none(tracked) == {}

\* managerLoop at ctx.Done(): the entries of connectedPeers whose cancel it calls
cancelledAtDone(tracked) == tracked

\* handleDisconnected that reconnects to every peer
spawnsReconnect_always(seeds, pid) == TRUE

\* handleDisconnected: whether the reconnection goroutine is spawned
spawnsReconnect(seeds, pid) == pid \in seeds

\* a cycle's end that empties peersToConnect
afterCycle_all(peersToConnect, newlyConnectedPeers) == {}

\* connectInitialPeers: peersToConnect after the deletes that end a cycle
afterCycle(peersToConnect, newlyConnectedPeers) ==
    peersToConnect \ newlyConnectedPeers

\* connectInitialPeers: the peers a cycle dials
cyclePeers(seeds, peersToConnect) == seeds

\* a reconnection goroutine as handleDisconnected spawns it
NewReconnect(id) ==
    [ id |-> id, sleepTimeSeconds |-> 1, attempts |-> 0, elapsed |-> 0 ]

\* one more attempt made; the attempts of a loop (of connectInitialPeers: its
\* cycles) are counted up to MaxAttempts
CountAttempt(g) ==
    [ g EXCEPT !.attempts = min(MaxAttempts, @ + 1) ]

\* time.Sleep(sleepTimeSeconds) and the doubling that follows it; the time
\* slept is kept for as long as the attempts are counted
Slept(g) ==
    [ g EXCEPT !.elapsed = IF g.attempts < MaxAttempts
                           THEN @ + g.sleepTimeSeconds ELSE @,
               !.sleepTimeSeconds = nextSleep(@) ]

InitConn ==
    /\ \E seeds \in InitialPeerSets : ConnConstructed(seeds)
    /\ ctxDone = FALSE
    /\ \E o \in OptionSets : ScoreConstructed(o)
    /\ node = NoNode
    /\ PeerConstructed
    /\ RpcConstructed
    /\ GossipConstructed
    /\ TrackerConstructed(1)

\* ConnectionManager.Start: spawn the goroutine, which reads the host's peers
StartCall(hostPeers) ==
    /\ startGo.pc = "notCalled"
    /\ startGo' = [ pc |-> "range", todo |-> hostPeers, cur |-> "p1" ]
    /\ UNCHANGED << scoreVars, nodeVars, peerVars, rpcVars, gossipVars, trackerVars, ctxDone, initialPeers, hostConns, connectedPeers, liveWorkers,
                    events, mgrPc, initGo, reconnectGo, signalGo >>

\* the goroutine of Start: the next peer of its range, whose Connected event
\* it goes to send if the host has connections to it
StartRange(id, hasConns) ==
    /\ startGo.pc = "range"
    /\ id \in startGo.todo
    /\ startGo' = [ pc   |-> IF hasConns THEN "send" ELSE "range",
                    todo |-> startGo.todo \ {id},
                    cur  |-> id ]
    /\ UNCHANGED << scoreVars, nodeVars, peerVars, rpcVars, gossipVars, trackerVars, ctxDone, initialPeers, hostConns, connectedPeers, liveWorkers,
                    events, mgrPc, initGo, reconnectGo, signalGo >>

\* the goroutine of Start after its range: it spawns connectInitialPeers, which
\* copies initialPeers to peersToConnect, and managerLoop
StartSpawn ==
    /\ startGo.pc = "range"
    /\ startGo.todo = {}
    /\ startGo' = [ startGo EXCEPT !.pc = "done" ]
    /\ mgrPc' = "running"
    /\ initGo' = [ InitGoNotStarted EXCEPT !.pc = "loop",
                                           !.peersToConnect = initialPeers ]
    /\ UNCHANGED << scoreVars, nodeVars, peerVars, rpcVars, gossipVars, trackerVars, ctxDone, initialPeers, hostConns, connectedPeers, liveWorkers,
                    events, reconnectGo, signalGo >>

\* who can send a Connected event of id on peerConnectedChan: the host, calling
\* Connected, and the goroutine of Start
ConnectedSenders(id) ==
    (IF events < MaxEvents THEN { "host" } ELSE {})
      \cup (IF startGo.pc = "send" /\ startGo.cur = id THEN { "start" } ELSE {})

\* handleConnected: a PeerConnection is created, started and tracked unless
\* the peer is tracked already
handleConnected(id) ==
    /\ IF spawnsWorker(connectedPeers, id)
       THEN /\ liveWorkers' = [ liveWorkers EXCEPT ![id] = @ + 1 ]
            /\ connectedPeers' = connectedPeers \cup {id}
       ELSE UNCHANGED << liveWorkers, connectedPeers >>
    /\ UNCHANGED << scoreVars, nodeVars, peerVars, rpcVars, gossipVars, trackerVars,
                    ctxDone, initialPeers, mgrPc, initGo, reconnectGo, signalGo >>

\* managerLoop receives from peerConnectedChan and runs handleConnected
MgrConnected(id, from) ==
    /\ mgrPc = "running"
    /\ from \in ConnectedSenders(id)
    /\ IF from = "host"
       THEN /\ events' = events + 1
            /\ UNCHANGED startGo
       ELSE /\ startGo' = [ startGo EXCEPT !.pc = "range" ]
            /\ UNCHANGED events
    /\ handleConnected(id)
    /\ UNCHANGED hostConns

\* handleDisconnected: the worker of a tracked peer is cancelled and the
\* peer untracked, a reconnection goroutine is spawned for a seed, and the
\* goroutine that signals the disconnect is spawned
handleDisconnected(id) ==
    /\ IF id \in connectedPeers
       THEN /\ liveWorkers' = [ p \in Peers |->
                                  IF p \in disconnectedPeers(connectedPeers, id)
                                  THEN liveWorkers[p] - 1 ELSE liveWorkers[p] ]
            /\ connectedPeers' = connectedPeers \ disconnectedPeers(connectedPeers, id)
            /\ reconnectGo' =
                  IF spawnsReconnect(initialPeers, id)
                  THEN reconnectGo (+) SetToBag({ NewReconnect(id) })
                  ELSE reconnectGo
            /\ signalGo' = [ signalGo EXCEPT ![id] = @ + 1 ]
       ELSE UNCHANGED << liveWorkers, connectedPeers, reconnectGo, signalGo >>
    /\ UNCHANGED << scoreVars, nodeVars, peerVars, rpcVars, gossipVars, trackerVars,
                    ctxDone, initialPeers, startGo, mgrPc, initGo >>

\* managerLoop receives from peerDisconnectedChan, where the host sends calling
\* Disconnected, and runs handleDisconnected
MgrDisconnected(id) ==
    /\ mgrPc = "running"
    /\ events < MaxEvents
    /\ events' = events + 1
    /\ handleDisconnected(id)
    /\ UNCHANGED hostConns

\* managerLoop sees ctx.Done(): it cancels every tracked worker, empties the
\* map and returns
MgrCtxDone ==
    /\ mgrPc = "running"
    /\ ctxDone
    /\ liveWorkers' = [ p \in Peers |->
                          IF p \in cancelledAtDone(connectedPeers)
                          THEN liveWorkers[p] - 1 ELSE liveWorkers[p] ]
    /\ connectedPeers' = {}
    /\ mgrPc' = "exited"
    /\ UNCHANGED << scoreVars, nodeVars, peerVars, rpcVars, gossipVars, trackerVars, ctxDone, initialPeers, hostConns, events, startGo, initGo,
                    reconnectGo, signalGo >>

\* one turn of the loop of a reconnection goroutine: it calls host.Connect and
\* returns if that succeeds, else sleeps sleepTimeSeconds and doubles it
ReconnectAttempt(g, ok) ==
    /\ BagIn(g, reconnectGo)
    /\ ok \in ConnectOutcomes
    /\ reconnectGo' =
          IF ok THEN reconnectGo (-) SetToBag({ g })
          ELSE (reconnectGo (-) SetToBag({ g })) (+) SetToBag({ Slept(CountAttempt(g)) })
    /\ UNCHANGED << scoreVars, nodeVars, peerVars, rpcVars, gossipVars, trackerVars, ctxDone, initialPeers, hostConns, connectedPeers, liveWorkers,
                    events, startGo, mgrPc, initGo, signalGo >>

\* connectInitialPeers tests len(peersToConnect) > 0 and begins a cycle or returns
InitLoop ==
    /\ initGo.pc = "loop"
    /\ initGo' = IF initGo.peersToConnect = {}
                 THEN [ initGo EXCEPT !.pc = "done" ]
                 ELSE [ initGo EXCEPT
                          !.pc = "range",
                          !.todo = cyclePeers(initialPeers, initGo.peersToConnect) ]
    /\ UNCHANGED << scoreVars, nodeVars, peerVars, rpcVars, gossipVars, trackerVars, ctxDone, initialPeers, hostConns, connectedPeers, liveWorkers,
                    events, startGo, mgrPc, reconnectGo, signalGo >>

\* connectInitialPeers at the end of a cycle: it deletes the newly connected
\* peers from peersToConnect, sleeps sleepTimeSeconds and doubles it
EndCycle(g) ==
    [ Slept(CountAttempt(g)) EXCEPT
        !.peersToConnect = afterCycle(@, g.newlyConnectedPeers),
        !.newlyConnectedPeers = {},
        !.pc = "loop" ]

\* connectInitialPeers calls host.Connect for the next peer of its range, and
\* ends the cycle after the last one
InitAttempt(id, ok) ==
    /\ initGo.pc = "range"
    /\ id \in initGo.todo
    /\ ok \in ConnectOutcomes
    /\ initGo' =
          LET g == [ initGo EXCEPT
                       !.todo = @ \ {id},
                       !.newlyConnectedPeers = IF ok THEN @ \cup {id} ELSE @ ]
          IN  IF g.todo = {} THEN EndCycle(g) ELSE g
    /\ UNCHANGED << scoreVars, nodeVars, peerVars, rpcVars, gossipVars, trackerVars, ctxDone, initialPeers, hostConns, connectedPeers, liveWorkers,
                    events, startGo, mgrPc, reconnectGo, signalGo >>

\* a goroutine of handleDisconnected completes its send on signalPeerDisconnectChan
SignalSend(id) ==
    /\ signalGo[id] > 0
    /\ signalGo' = [ signalGo EXCEPT ![id] = @ - 1 ]
    /\ UNCHANGED << scoreVars, nodeVars, peerVars, rpcVars, gossipVars, trackerVars, ctxDone, initialPeers, hostConns, connectedPeers, liveWorkers,
                    events, startGo, mgrPc, initGo, reconnectGo >>

\* a goroutine of handleDisconnected sees ctx.Done() and gives up
SignalAbandon(id) ==
    /\ signalGo[id] > 0
    /\ ctxDone
    /\ signalGo' = [ signalGo EXCEPT ![id] = @ - 1 ]
    /\ UNCHANGED << scoreVars, nodeVars, peerVars, rpcVars, gossipVars, trackerVars, ctxDone, initialPeers, hostConns, connectedPeers, liveWorkers,
                    events, startGo, mgrPc, initGo, reconnectGo >>

\* the root scope is cancelled
CancelRoot ==
    /\ ~ctxDone
    /\ ctxDone' = TRUE
    /\ UNCHANGED << scoreVars, connVars, nodeVars, peerVars, rpcVars, gossipVars, trackerVars >>

NextConn ==
    \/ \E hostPeers \in SUBSET Peers : StartCall(hostPeers)
    \/ \E id \in Peers, hasConns \in BOOLEAN : StartRange(id, hasConns)
    \/ StartSpawn
    \/ \E id \in Peers, from \in { "host", "start" } : MgrConnected(id, from)
    \/ \E id \in Peers : MgrDisconnected(id)
    \/ MgrCtxDone
    \/ \E g \in BagToSet(reconnectGo), ok \in BOOLEAN : ReconnectAttempt(g, ok)
    \/ InitLoop
    \/ \E id \in Peers, ok \in BOOLEAN : InitAttempt(id, ok)
    \/ \E id \in Peers : SignalSend(id)
    \/ \E id \in Peers : SignalAbandon(id)
    \/ CancelRoot

SpecConn == InitConn /\ [][NextConn]_vars

\* Every goroutine of the manager is scheduled, and whoever reads
\* signalPeerDisconnectChan keeps reading it.  The host and whoever cancels
\* the root scope act when they like.
FairConn ==
    /\ WF_vars(\E id \in Peers, hasConns \in BOOLEAN : StartRange(id, hasConns))
    /\ WF_vars(StartSpawn)
    /\ WF_vars(MgrCtxDone)
    /\ WF_vars(\E g \in BagToSet(reconnectGo), ok \in BOOLEAN : ReconnectAttempt(g, ok))
    /\ WF_vars(InitLoop)
    /\ WF_vars(\E id \in Peers, ok \in BOOLEAN : InitAttempt(id, ok))
    /\ WF_vars(\E id \in Peers : SignalSend(id))

SpecConnFair == SpecConn /\ FairConn

\* ------------------------------------------------------------- SpecHost

\* The manager under a host whose connections are followed: a peer can have
\* several connections at a time, the host calls Connected for each one it
\* opens and Disconnected for each one it closes.  No connection is open when
\* Start is called, and connectInitialPeers is not scheduled.

\* how many Connected and Disconnected events such a host delivers in a run
MaxHostEvents == 4

\* the host opens a connection to id and calls Connected; managerLoop receives
\* the event and runs handleConnected
HostConnected(id) ==
    /\ mgrPc = "running"
    /\ events < MaxHostEvents
    /\ events' = events + 1
    /\ hostConns' = [ hostConns EXCEPT ![id] = @ + 1 ]
    /\ handleConnected(id)
    /\ UNCHANGED startGo

\* the host closes one of its connections to id and calls Disconnected;
\* managerLoop receives the event and runs handleDisconnected
HostDisconnected(id) ==
    /\ mgrPc = "running"
    /\ events < MaxHostEvents
    /\ hostConns[id] > 0
    /\ events' = events + 1
    /\ hostConns' = [ hostConns EXCEPT ![id] = @ - 1 ]
    /\ handleDisconnected(id)

InitHost == InitConn

NextHost ==
    \/ StartCall({})
    \/ StartSpawn
    \/ \E id \in Peers : HostConnected(id)
    \/ \E id \in Peers : HostDisconnected(id)
    \/ MgrCtxDone
    \/ \E g \in BagToSet(reconnectGo), ok \in BOOLEAN : ReconnectAttempt(g, ok)
    \/ \E id \in Peers : SignalSend(id)
    \/ \E id \in Peers : SignalAbandon(id)
    \/ CancelRoot

SpecHost == InitHost /\ [][NextHost]_vars

\* ------------------------------------------------------------- SpecNode

\* how many broadcasts of the message bus the node publishes in a run
MaxPublish == 2

\* how many nodes are created in a run, one after the other
MaxNodes == 3

\* the listen addresses given to NewKoinosP2PNode, split at "/":
\* "/ip4/127.0.0.1/tcp/8765", "/ip4/0.0.0.0/tcp/0", "---",
\* "/ip4/127.0.0.1/tcp", "/ip4/127.0.0.256/tcp/8765", "/koinos/1"
ListenAddrs ==
    { << "", "ip4", << 127, 0, 0, 1 >>, "tcp", 8765 >>,
      << "", "ip4", << 0, 0, 0, 0 >>, "tcp", 0 >>,
      << "---" >>,
      << "", "ip4", << 127, 0, 0, 1 >>, "tcp" >>,
      << "", "ip4", << 127, 0, 0, 256 >>, "tcp", 8765 >>,
      << "", "koinos", 1 >> }

\* the listen addresses of TestBasicNode: "/ip4/127.0.0.1/tcp/8765", "---"
TestAddrs ==
    { << "", "ip4", << 127, 0, 0, 1 >>, "tcp", 8765 >>, << "---" >> }

\* the seeds given to NewKoinosP2PNode: an explicit one and the blank one
Seeds == { "test1", "" }

\* what util.GenerateBase58ID(8) may return for a blank seed
RandomSeeds == { "r1", "r2" }

\* generatePrivateKey: the seed the key is derived from; a blank seed is
\* replaced by a random one
keySeed(seed, random) == IF seed = "" THEN random ELSE seed

\* the components of a multiaddress after its leading "/": each is the
\* name of a protocol followed by a value the protocol accepts
RECURSIVE validComponents(_)
validComponents(parts) ==
    IF Len(parts) = 0 THEN TRUE
    ELSE IF Len(parts) = 1 THEN FALSE
    ELSE IF parts[1] = "ip4"
    THEN /\ Len(parts[2]) = 4
         /\ \A i \in 1 .. 4 : parts[2][i] \in 0 .. 255
         /\ validComponents(SubSeq(parts, 3, Len(parts)))
    ELSE IF parts[1] = "tcp"
    THEN /\ parts[2] \in 0 .. 65535
         /\ validComponents(SubSeq(parts, 3, Len(parts)))
    ELSE FALSE

\* libp2p.ListenAddrStrings(listenAddr): whether the string is a
\* multiaddress; if not, libp2p.New returns its error
isMultiaddr_any(parts) == TRUE

isMultiaddr(parts) ==
    /\ Len(parts) >= 2
    /\ parts[1] = ""
    /\ validComponents(SubSeq(parts, 2, Len(parts)))

\* NewKoinosP2PNode: libp2p.New fails on a listen address that is no
\* multiaddress and nil is returned with the error; else the node has its
\* host, sync manager and gossip. A second node is created where the first
\* one failed or was closed without having been started.
NewKoinosP2PNode(listenAddr, seed, random, forceGossip) ==
    /\ \/ node.pc \in { "none", "failed" }
       \/ node.pc = "constructed" /\ node.hostClosed
    /\ node.created < MaxNodes
    /\ node' = IF isMultiaddr(listenAddr)
               THEN [ NoNode EXCEPT
                        !.pc = "constructed",
                        !.ForceGossip = forceGossip,
                        !.listenAddr = listenAddr,
                        !.seed = keySeed(seed, random),
                        !.created = node.created + 1,
                        !.prevAddr = node.listenAddr ]
               ELSE [ NoNode EXCEPT
                        !.pc = "failed",
                        !.created = node.created + 1,
                        !.prevAddr = node.prevAddr ]
    /\ UNCHANGED << scoreVars, connVars, peerVars, rpcVars, gossipVars, trackerVars, ctxDone >>

\* KoinosP2PNode.Close: whether the scope given to Start is done after it
closeCancels(done) == done

\* KoinosP2PNode.Start: whether it calls n.Gossip.Start(ctx)
startsGossip_always(ForceGossip) == TRUE

startsGossip(ForceGossip) == ForceGossip

\* KoinosP2PNode.Start(ctx): gossip is started if ForceGossip, the sync
\* manager is started, and the goroutine of ConnectInitialPeers is spawned
NodeStart ==
    /\ node.pc = "constructed"
    /\ node' = [ node EXCEPT
                   !.pc = "started",
                   !.gossip = IF startsGossip(node.ForceGossip) THEN "on" ELSE @,
                   !.sync = "running",
                   !.connectGo = "running" ]
    /\ UNCHANGED << scoreVars, connVars, peerVars, rpcVars, gossipVars, trackerVars, ctxDone >>

\* KoinosP2PNode.Close: it closes the host
NodeClose ==
    /\ node.pc \in { "constructed", "started" }
    /\ ~node.hostClosed
    /\ node' = [ node EXCEPT !.hostClosed = TRUE ]
    /\ ctxDone' = closeCancels(ctxDone)
    /\ UNCHANGED << scoreVars, connVars, peerVars, rpcVars, gossipVars, trackerVars >>

\* handleBlockBroadcast and handleTransactionBroadcast: a broadcast that
\* unmarshals is published on its gossip topic, another is dropped
HandleBroadcast(unmarshals) ==
    /\ node.pc \in { "constructed", "started" }
    /\ node.published < MaxPublish
    /\ node' = IF unmarshals THEN [ node EXCEPT !.published = @ + 1 ] ELSE node
    /\ UNCHANGED << scoreVars, connVars, peerVars, rpcVars, gossipVars, trackerVars, ctxDone >>

\* the goroutine of ConnectInitialPeers returns; it was given no scope
ConnectGoReturns ==
    /\ node.connectGo = "running"
    /\ node' = [ node EXCEPT !.connectGo = "done" ]
    /\ UNCHANGED << scoreVars, connVars, peerVars, rpcVars, gossipVars, trackerVars, ctxDone >>

\* the tasks of Gossip.Start(ctx) end when ctx is done
GossipStops ==
    /\ node.gossip = "on"
    /\ ctxDone
    /\ node' = [ node EXCEPT !.gossip = "stopped" ]
    /\ UNCHANGED << scoreVars, connVars, peerVars, rpcVars, gossipVars, trackerVars, ctxDone >>

\* the tasks of SyncManager.Start(ctx) end when ctx is done
SyncStops ==
    /\ node.sync = "running"
    /\ ctxDone
    /\ node' = [ node EXCEPT !.sync = "stopped" ]
    /\ UNCHANGED << scoreVars, connVars, peerVars, rpcVars, gossipVars, trackerVars, ctxDone >>

\* the payloads of the gossip messages of a run: "", "a", "b" and "ab"
Payloads == { << >>, << 97 >>, << 98 >>, << 97, 98 >> }

\* the topics of KoinosGossip
Topics == { "block", "transaction" }

\* the sequence numbers pubsub gives the messages of one sender
Seqnos == 0 .. 1

\* sha256.New, Write(msg.Data), Sum(nil): the 32 bytes of the digest of
\* each payload of Payloads
sha256(data) ==
    CASE data = << >> ->
           << 227, 176, 196, 66, 152, 252, 28, 20, 154, 251, 244, 200, 153, 111, 185, 36, 39, 174, 65, 228, 100, 155, 147, 76, 164, 149, 153, 27, 120, 82, 184, 85 >>
      [] data = << 97 >> ->
           << 202, 151, 129, 18, 202, 27, 189, 202, 250, 194, 49, 179, 154, 35, 220, 77, 167, 134, 239, 248, 20, 124, 78, 114, 185, 128, 119, 133, 175, 238, 72, 187 >>
      [] data = << 98 >> ->
           << 62, 35, 232, 22, 0, 57, 89, 74, 51, 137, 79, 101, 100, 225, 177, 52, 139, 189, 122, 0, 136, 212, 44, 74, 203, 115, 238, 174, 213, 156, 0, 157 >>
      [] data = << 97, 98 >> ->
           << 251, 142, 32, 252, 46, 76, 63, 36, 140, 96, 195, 155, 214, 82, 243, 193, 52, 114, 152, 187, 151, 123, 139, 77, 89, 3, 184, 80, 85, 98, 6, 3 >>

\* encoding/base64: the alphabet of StdEncoding and RawStdEncoding
encodeStd ==
    << "A", "B", "C", "D", "E", "F", "G", "H", "I", "J", "K", "L", "M", "N", "O", "P",
       "Q", "R", "S", "T", "U", "V", "W", "X", "Y", "Z", "a", "b", "c", "d", "e", "f",
       "g", "h", "i", "j", "k", "l", "m", "n", "o", "p", "q", "r", "s", "t", "u", "v",
       "w", "x", "y", "z", "0", "1", "2", "3", "4", "5", "6", "7", "8", "9", "+", "/" >>

\* encoding/base64: the alphabet of URLEncoding and RawURLEncoding
encodeURL ==
    << "A", "B", "C", "D", "E", "F", "G", "H", "I", "J", "K", "L", "M", "N", "O", "P",
       "Q", "R", "S", "T", "U", "V", "W", "X", "Y", "Z", "a", "b", "c", "d", "e", "f",
       "g", "h", "i", "j", "k", "l", "m", "n", "o", "p", "q", "r", "s", "t", "u", "v",
       "w", "x", "y", "z", "0", "1", "2", "3", "4", "5", "6", "7", "8", "9", "-", "_" >>

\* Encoding.EncodeToString without padding: each three bytes give four
\* characters, a rest of one byte gives two and a rest of two gives three
RECURSIVE EncodeToString(_, _)
EncodeToString(encode, src) ==
    IF Len(src) = 0 THEN << >>
    ELSE IF Len(src) = 1
    THEN LET val == src[1] * 65536
         IN  << encode[((val \div 262144) % 64) + 1],
                encode[((val \div 4096) % 64) + 1] >>
    ELSE IF Len(src) = 2
    THEN LET val == src[1] * 65536 + src[2] * 256
         IN  << encode[((val \div 262144) % 64) + 1],
                encode[((val \div 4096) % 64) + 1],
                encode[((val \div 64) % 64) + 1] >>
    ELSE LET val == src[1] * 65536 + src[2] * 256 + src[3]
         IN  << encode[((val \div 262144) % 64) + 1],
                encode[((val \div 4096) % 64) + 1],
                encode[((val \div 64) % 64) + 1],
                encode[(val % 64) + 1] >>
             \o EncodeToString(encode, SubSeq(src, 4, Len(src)))

\* generateMessageID: base64.RawStdEncoding of the SHA-256 of msg.Data
generateMessageID(msg) == EncodeToString(encodeStd, sha256(msg.Data))

\* pubsub, made with WithMessageIdFn(generateMessageID), gives each message
\* it publishes or receives its ID
ReceiveMessage(from, seqno, topic, data) ==
    /\ node.pc \in { "constructed", "started" }
    /\ LET msg == [ From |-> from, Seqno |-> seqno, Topic |-> topic, Data |-> data ]
       IN  message' = [ From |-> from, Seqno |-> seqno, Topic |-> topic,
                        Data |-> data, ID |-> generateMessageID(msg) ]
    /\ UNCHANGED << scoreVars, connVars, nodeVars, peerVars, rpcVars, trackerVars,
                    ctxDone >>

InitNode ==
    /\ node = NoNode
    /\ ctxDone = FALSE
    /\ ConnConstructed({})
    /\ \E o \in OptionSets : ScoreConstructed(o)
    /\ PeerConstructed
    /\ RpcConstructed
    /\ GossipConstructed
    /\ TrackerConstructed(1)

NextNode ==
    \/ \E listenAddr \in TestAddrs, forceGossip \in BOOLEAN :
          NewKoinosP2PNode(listenAddr, "test1", "r1", forceGossip)
    \/ NodeStart
    \/ NodeClose
    \/ \E unmarshals \in BOOLEAN : HandleBroadcast(unmarshals)
    \/ ConnectGoReturns
    \/ GossipStops
    \/ SyncStops
    \/ \E from \in Peers, seqno \in Seqnos, topic \in Topics, data \in Payloads :
          ReceiveMessage(from, seqno, topic, data)
    \/ CancelRoot

SpecNode == InitNode /\ [][NextNode]_vars

\* the creation, start and closing of nodes on every listen address and
\* seed, as TestBasicNode does them one after the other
NextCreate ==
    \/ \E listenAddr \in ListenAddrs, seed \in Seeds, random \in RandomSeeds,
          forceGossip \in BOOLEAN :
          NewKoinosP2PNode(listenAddr, seed, random, forceGossip)
    \/ NodeStart
    \/ NodeClose

SpecCreate == InitNode /\ [][NextCreate]_vars

\* ------------------------------------------------------------- SpecPeer

\* how many NodeUpdates the provider sends to the PeerHandler in a run
MaxUpdates == 3

\* how many download requests the provider sends to the PeerHandler in a run
MaxRequests == 2

\* how many block topologies a GetTopologyAtHeight reply holds at most
MaxTopologies == 1

\* h.peerID
peerID == "p1"

\* what GetBlocksByID gives: an error (or the timeout), no block item, a
\* first item without value, a first item with a block
RpcOutcomes == { "error", "empty", "novalue", "block" }

\* nodeUpdateLoop keeping the update it holds when another is received
heldValue_first(hasValue, value, received) ==
    IF hasValue THEN value ELSE received

\* nodeUpdateLoop, value = <-h.nodeUpdateChan in either select: the value
\* held after an update is received
heldValue(hasValue, value, received) == received

\* nodeUpdateLoop not marking the value it received
hasValueAfterReceive_kept(hasValue) == hasValue

\* nodeUpdateLoop: hasValue after value = <-h.nodeUpdateChan, which the
\* second select sets and the first finds set
hasValueAfterReceive(hasValue) == TRUE

\* nodeUpdateLoop keeping hasValue after the value is delivered
hasValueAfterDelivery_kept(hasValue) == hasValue

\* nodeUpdateLoop: hasValue after h.internalNodeUpdateChan <- value
hasValueAfterDelivery(hasValue) == FALSE

\* a worker loop which an error of the poll cycle ends
loopAfterCycle_exitsOnError(err) == IF err THEN "exited" ELSE "select"

\* peerHandlerLoop after doPeerCycle returned: the timer is armed again and
\* the loop is back at its select, whatever peerHandlerCycle returned
loopAfterCycle(err) == "select"

\* requestDownload: the response built from the request and from what
\* CallContext gave
downloadResponse(topology, outcome) ==
    [ Topology |-> topology,
      PeerID   |-> peerID,
      Block    |-> IF outcome = "block" THEN "block" ELSE "none",
      Err      |-> IF outcome = "error" THEN "rpc error"
                   ELSE IF outcome = "empty" THEN "Got 0 blocks from peer"
                   ELSE "none" ]

\* resp.BlockTopology of a GetTopologyAtHeight reply with n topologies: the
\* blocks at the heights from the one requested
replyTopologies(req, n) == [ i \in 1..n |-> req.BlockHeight + i - 1 ]

\* PeerHasBlock{h.peerID, util.BlockTopologyToCmp(b)}
PeerHasBlock(b) == [ PeerID |-> peerID, Block |-> b ]

\* a range that takes the topologies from the last to the first
nextTopology_last(reply, forwarded) == reply[Len(reply) - Len(forwarded)]

\* peerHandlerCycle, for _, b := range resp.BlockTopology: the topology
\* whose message is sent next
nextTopology(reply, forwarded) == reply[Len(forwarded) + 1]

\* a requestDownload that returns without spawning its goroutine
requestDownload_dropped(topology) == {}

\* requestDownload: the goroutine it spawns for the request, about to call
\* GetBlocksByID
requestDownload(topology) ==
    { [ Topology |-> topology, pc |-> "rpc", resp |-> NoResponse ] }

InitPeer ==
    /\ PeerConstructed
    /\ RpcConstructed
    /\ GossipConstructed
    /\ TrackerConstructed(1)
    /\ ctxDone = FALSE
    /\ ConnConstructed({})
    /\ \E o \in OptionSets : ScoreConstructed(o)
    /\ node = NoNode

\* nodeUpdateLoop is entered: no value is held
NodeUpdateLoopStart ==
    /\ nodeUpdateGo.pc = "notStarted"
    /\ nodeUpdateGo' = [ pc |-> "select", hasValue |-> FALSE, value |-> Update(0) ]
    /\ UNCHANGED << peerLoop, updatesSent, requestsSent, downloadGo,
                    downloadResponseChan, errChan, pollFailed >>
    /\ UNCHANGED << scoreVars, connVars, nodeVars, rpcVars, gossipVars, trackerVars, ctxDone >>

\* nodeUpdateLoop receives the next update of the provider, in either select
NodeUpdateRecv ==
    /\ nodeUpdateGo.pc = "select"
    /\ updatesSent < MaxUpdates
    /\ updatesSent' = updatesSent + 1
    /\ nodeUpdateGo' = [ nodeUpdateGo EXCEPT
                           !.value = heldValue(nodeUpdateGo.hasValue, @,
                                               Update(updatesSent + 1)),
                           !.hasValue = hasValueAfterReceive(@) ]
    /\ UNCHANGED << peerLoop, requestsSent, downloadGo,
                    downloadResponseChan, errChan, pollFailed >>
    /\ UNCHANGED << scoreVars, connVars, nodeVars, rpcVars, gossipVars, trackerVars, ctxDone >>

\* h.internalNodeUpdateChan <- value meets h.lastNodeUpdate = <-... of the
\* worker loop
NodeUpdateDeliver ==
    /\ nodeUpdateGo.pc = "select"
    /\ nodeUpdateGo.hasValue
    /\ peerLoop.pc = "select"
    /\ peerLoop' = [ peerLoop EXCEPT !.lastNodeUpdate = nodeUpdateGo.value ]
    /\ nodeUpdateGo' = [ nodeUpdateGo EXCEPT
                           !.hasValue = hasValueAfterDelivery(@) ]
    /\ UNCHANGED << updatesSent, requestsSent, downloadGo,
                    downloadResponseChan, errChan, pollFailed >>
    /\ UNCHANGED << scoreVars, connVars, nodeVars, rpcVars, gossipVars, trackerVars, ctxDone >>

\* nodeUpdateLoop: case <-ctx.Done(), in either select
NodeUpdateLoopExit ==
    /\ nodeUpdateGo.pc = "select"
    /\ ctxDone
    /\ nodeUpdateGo' = [ nodeUpdateGo EXCEPT !.pc = "exited" ]
    /\ UNCHANGED << peerLoop, updatesSent, requestsSent, downloadGo,
                    downloadResponseChan, errChan, pollFailed >>
    /\ UNCHANGED << scoreVars, connVars, nodeVars, rpcVars, gossipVars, trackerVars, ctxDone >>

\* peerHandlerLoop is entered: the poll timer is armed
PeerHandlerLoopStart ==
    /\ peerLoop.pc = "notStarted"
    /\ peerLoop' = [ peerLoop EXCEPT !.pc = "select" ]
    /\ UNCHANGED << nodeUpdateGo, updatesSent, requestsSent, downloadGo,
                    downloadResponseChan, errChan, pollFailed >>
    /\ UNCHANGED << scoreVars, connVars, nodeVars, rpcVars, gossipVars, trackerVars, ctxDone >>

\* case <-nextPollTime: doPeerCycle calls peerHandlerCycle, which builds its
\* request from h.lastNodeUpdate and calls GetTopologyAtHeight
PollStart ==
    /\ peerLoop.pc = "select"
    /\ peerLoop' = [ peerLoop EXCEPT
                       !.pc = "rpc",
                       !.req = [ BlockHeight |-> peerLoop.lastNodeUpdate.InterestStartHeight,
                                 NumBlocks   |-> peerLoop.lastNodeUpdate.InterestNumBlocks ] ]
    /\ UNCHANGED << nodeUpdateGo, updatesSent, requestsSent, downloadGo,
                    downloadResponseChan, errChan, pollFailed >>
    /\ UNCHANGED << scoreVars, connVars, nodeVars, rpcVars, gossipVars, trackerVars, ctxDone >>

\* CallContext of peerHandlerCycle returns: on an error the cycle returns
\* it and doPeerCycle drops it; else the topologies are to be forwarded
PollReply(err, numTopologies) ==
    /\ peerLoop.pc = "rpc"
    /\ pollFailed' = (pollFailed \/ err)
    /\ peerLoop' = IF err \/ numTopologies = 0
                   THEN [ peerLoop EXCEPT !.pc = loopAfterCycle(err), !.todo = 0 ]
                   ELSE [ peerLoop EXCEPT
                            !.pc = "forward",
                            !.todo = numTopologies,
                            !.reply = replyTopologies(peerLoop.req, numTopologies) ]
    /\ UNCHANGED << nodeUpdateGo, updatesSent, requestsSent, downloadGo,
                    downloadResponseChan, errChan >>
    /\ UNCHANGED << scoreVars, connVars, nodeVars, rpcVars, gossipVars, trackerVars, ctxDone >>

\* peerHandlerCycle: h.peerHasBlockChan <- hasBlockMsg for the next topology
\* of its range over resp.BlockTopology
ForwardHasBlock ==
    /\ peerLoop.pc = "forward"
    /\ peerLoop.todo > 0
    /\ peerLoop' = [ peerLoop EXCEPT
                       !.todo = @ - 1,
                       !.forwarded = Append(@, PeerHasBlock(
                                        nextTopology(peerLoop.reply, peerLoop.forwarded))) ]
    /\ UNCHANGED << nodeUpdateGo, updatesSent, requestsSent, downloadGo,
                    downloadResponseChan, errChan, pollFailed >>
    /\ UNCHANGED << scoreVars, connVars, nodeVars, rpcVars, gossipVars, trackerVars, ctxDone >>

\* peerHandlerCycle after the last topology of its range: return nil, and
\* the worker loop arms its timer
ForwardDone ==
    /\ peerLoop.pc = "forward"
    /\ peerLoop.todo = 0
    /\ peerLoop' = [ peerLoop EXCEPT !.pc = loopAfterCycle(FALSE),
                                     !.reply = << >>, !.forwarded = << >> ]
    /\ UNCHANGED << nodeUpdateGo, updatesSent, requestsSent, downloadGo,
                    downloadResponseChan, errChan, pollFailed >>
    /\ UNCHANGED << scoreVars, connVars, nodeVars, rpcVars, gossipVars, trackerVars, ctxDone >>

\* peerHandlerCycle: case <-ctx.Done() while forwarding, return nil
ForwardAbandon ==
    /\ peerLoop.pc = "forward"
    /\ peerLoop.todo > 0
    /\ ctxDone
    /\ peerLoop' = [ peerLoop EXCEPT !.todo = 0, !.pc = loopAfterCycle(FALSE),
                                     !.reply = << >>, !.forwarded = << >> ]
    /\ UNCHANGED << nodeUpdateGo, updatesSent, requestsSent, downloadGo,
                    downloadResponseChan, errChan, pollFailed >>
    /\ UNCHANGED << scoreVars, connVars, nodeVars, rpcVars, gossipVars, trackerVars, ctxDone >>

\* case req := <-h.downloadRequestChan: requestDownload spawns a goroutine
\* that calls GetBlocksByID, and returns
AcceptDownload ==
    /\ peerLoop.pc = "select"
    /\ requestsSent < MaxRequests
    /\ requestsSent' = requestsSent + 1
    /\ downloadGo' = downloadGo \cup requestDownload(requestsSent + 1)
    /\ UNCHANGED << nodeUpdateGo, peerLoop, updatesSent,
                    downloadResponseChan, errChan, pollFailed >>
    /\ UNCHANGED << scoreVars, connVars, nodeVars, rpcVars, gossipVars, trackerVars, ctxDone >>

\* the goroutine of requestDownload: CallContext returns and the response
\* is built
DownloadReply(g, outcome) ==
    /\ g \in downloadGo
    /\ g.pc = "rpc"
    /\ downloadGo' = (downloadGo \ {g}) \cup
          { [ g EXCEPT !.pc = "send",
                       !.resp = downloadResponse(g.Topology, outcome) ] }
    /\ UNCHANGED << nodeUpdateGo, peerLoop, updatesSent, requestsSent,
                    downloadResponseChan, errChan, pollFailed >>
    /\ UNCHANGED << scoreVars, connVars, nodeVars, rpcVars, gossipVars, trackerVars, ctxDone >>

\* the goroutine of requestDownload: h.downloadResponseChan <- *resp
DownloadSend(g) ==
    /\ g \in downloadGo
    /\ g.pc = "send"
    /\ downloadResponseChan' = Append(downloadResponseChan, g.resp)
    /\ downloadGo' = downloadGo \ {g}
    /\ UNCHANGED << nodeUpdateGo, peerLoop, updatesSent, requestsSent,
                    errChan, pollFailed >>
    /\ UNCHANGED << scoreVars, connVars, nodeVars, rpcVars, gossipVars, trackerVars, ctxDone >>

\* the goroutine of requestDownload: case <-ctx.Done() at its send
DownloadAbandon(g) ==
    /\ g \in downloadGo
    /\ g.pc = "send"
    /\ ctxDone
    /\ downloadGo' = downloadGo \ {g}
    /\ UNCHANGED << nodeUpdateGo, peerLoop, updatesSent, requestsSent,
                    downloadResponseChan, errChan, pollFailed >>
    /\ UNCHANGED << scoreVars, connVars, nodeVars, rpcVars, gossipVars, trackerVars, ctxDone >>

\* peerHandlerLoop: case <-ctx.Done(), return
PeerHandlerLoopExit ==
    /\ peerLoop.pc = "select"
    /\ ctxDone
    /\ peerLoop' = [ peerLoop EXCEPT !.pc = "exited" ]
    /\ UNCHANGED << nodeUpdateGo, updatesSent, requestsSent, downloadGo,
                    downloadResponseChan, errChan, pollFailed >>
    /\ UNCHANGED << scoreVars, connVars, nodeVars, rpcVars, gossipVars, trackerVars, ctxDone >>

NextPeer ==
    \/ NodeUpdateLoopStart
    \/ NodeUpdateRecv
    \/ NodeUpdateDeliver
    \/ NodeUpdateLoopExit
    \/ PeerHandlerLoopStart
    \/ PollStart
    \/ \E err \in BOOLEAN, numTopologies \in 0..MaxTopologies :
          PollReply(err, numTopologies)
    \/ ForwardHasBlock
    \/ ForwardDone
    \/ ForwardAbandon
    \/ AcceptDownload
    \/ \E g \in downloadGo, outcome \in RpcOutcomes : DownloadReply(g, outcome)
    \/ \E g \in downloadGo : DownloadSend(g)
    \/ \E g \in downloadGo : DownloadAbandon(g)
    \/ PeerHandlerLoopExit
    \/ CancelRoot

SpecPeer == InitPeer /\ [][NextPeer]_vars

\* each goroutine that can take a step takes one; the scope need not be
\* cancelled and the provider need not send
FairPeer ==
    /\ WF_vars(NodeUpdateLoopStart)
    /\ WF_vars(NodeUpdateDeliver)
    /\ WF_vars(NodeUpdateLoopExit)
    /\ WF_vars(PeerHandlerLoopStart)
    /\ WF_vars(PollStart)
    /\ WF_vars(\E err \in BOOLEAN, numTopologies \in 0..MaxTopologies :
                  PollReply(err, numTopologies))
    /\ WF_vars(ForwardHasBlock)
    /\ WF_vars(ForwardDone)
    /\ WF_vars(\E g \in downloadGo, outcome \in RpcOutcomes : DownloadReply(g, outcome))
    /\ WF_vars(\E g \in downloadGo : DownloadSend(g))
    /\ WF_vars(PeerHandlerLoopExit)

SpecPeerFair == SpecPeer /\ FairPeer

\* The worker loop and the goroutines of requestDownload where the provider
\* sends no NodeUpdate: nodeUpdateLoop has nothing to receive or deliver, and
\* the worker loop polls, forwards and takes download requests.
NextDownload ==
    \/ PeerHandlerLoopStart
    \/ PollStart
    \/ \E err \in BOOLEAN, numTopologies \in 0..MaxTopologies :
          PollReply(err, numTopologies)
    \/ ForwardHasBlock
    \/ ForwardDone
    \/ ForwardAbandon
    \/ AcceptDownload
    \/ \E g \in downloadGo, outcome \in RpcOutcomes : DownloadReply(g, outcome)
    \/ \E g \in downloadGo : DownloadSend(g)
    \/ \E g \in downloadGo : DownloadAbandon(g)
    \/ PeerHandlerLoopExit
    \/ CancelRoot

\* the worker loop and each goroutine of requestDownload take the steps they
\* can take, GetBlocksByID returns within DownloadTimeoutMs, and whoever reads
\* downloadResponseChan keeps reading it
FairDownload ==
    /\ WF_vars(PeerHandlerLoopStart)
    /\ WF_vars(\E err \in BOOLEAN, numTopologies \in 0..MaxTopologies :
                  PollReply(err, numTopologies))
    /\ WF_vars(ForwardHasBlock)
    /\ WF_vars(ForwardDone)
    /\ WF_vars(\E g \in downloadGo, outcome \in RpcOutcomes : DownloadReply(g, outcome))
    /\ WF_vars(\E g \in downloadGo : DownloadSend(g))
    /\ WF_vars(PeerHandlerLoopExit)

SpecDownload == InitPeer /\ [][NextDownload]_vars /\ FairDownload

\* how many block topologies a GetTopologyAtHeight reply holds at most where
\* the provider sends no download request
MaxReply == 2

\* nodeUpdateLoop and the worker loop where the provider sends no download
\* request: the worker loop polls, forwards and takes the updates.
NextUpdate ==
    \/ NodeUpdateLoopStart
    \/ NodeUpdateRecv
    \/ NodeUpdateDeliver
    \/ NodeUpdateLoopExit
    \/ PeerHandlerLoopStart
    \/ PollStart
    \/ \E err \in BOOLEAN, numTopologies \in 0..MaxReply :
          PollReply(err, numTopologies)
    \/ ForwardHasBlock
    \/ ForwardDone
    \/ ForwardAbandon
    \/ PeerHandlerLoopExit
    \/ CancelRoot

\* both loops take the steps they can take, GetTopologyAtHeight returns
\* within RPCTimeoutMs and whoever reads peerHasBlockChan keeps reading it, so
\* that the worker loop keeps returning to its select; there the select takes
\* a ready case at random, so that the send of nodeUpdateLoop, ready each time
\* the worker loop is at its select, is taken in the end
FairUpdate ==
    /\ WF_vars(NodeUpdateLoopStart)
    /\ SF_vars(NodeUpdateDeliver)
    /\ WF_vars(NodeUpdateLoopExit)
    /\ WF_vars(PeerHandlerLoopStart)
    /\ WF_vars(\E err \in BOOLEAN, numTopologies \in 0..MaxReply :
                  PollReply(err, numTopologies))
    /\ WF_vars(ForwardHasBlock)
    /\ WF_vars(ForwardDone)
    /\ WF_vars(PeerHandlerLoopExit)

SpecUpdate == InitPeer /\ [][NextUpdate]_vars /\ FairUpdate

\* -------------------------------------------------------------- SpecRPC

\* how many block items a reply of the block store holds at most
MaxItems == 2

BlockIDs == { "b1", "b2" }

ItemLists == UNION { [ 1..n -> BlockIDs ] : n \in 0..MaxItems }

\* what k.mq.RPCContext gives: an error (or the timeout); bytes that do not
\* unmarshal; the error variant; a variant of another request; the variant
\* of the request, with its block items
BusReplies ==
    { [ kind |-> k, items |-> << >> ] :
         k \in { "busError", "garbage", "errorVariant", "otherVariant" } }
      \cup { [ kind |-> "expected", items |-> items ] : items \in ItemLists }

\* KoinosRPC.ApplyBlock of koinos_rpc.go, first definition
ApplyBlock(reply) ==
    CASE reply.kind = "busError"     -> [ value |-> "nil", err |-> "bus" ]
      [] reply.kind = "garbage"      -> [ value |-> "nil", err |-> "unmarshal" ]
      [] reply.kind = "expected"     -> [ value |-> "response", err |-> "nil" ]
      [] reply.kind = "errorVariant" -> [ value |-> "nil", err |-> "chain error" ]
      [] OTHER                       -> [ value |-> "nil", err |-> "unexpected type" ]

\* KoinosRPC.ApplyBlock of koinos_rpc.go, second definition, which returns
\* a bool
ApplyBlockBool(reply) ==
    CASE reply.kind = "busError"     -> [ value |-> FALSE, err |-> "bus" ]
      [] reply.kind = "garbage"      -> [ value |-> FALSE, err |-> "nil" ]
      [] reply.kind = "expected"     -> [ value |-> TRUE, err |-> "nil" ]
      [] reply.kind = "errorVariant" -> [ value |-> FALSE, err |-> "chain error" ]
      [] OTHER                       -> [ value |-> FALSE, err |-> "nil" ]

\* KoinosRPC.GetBlocksByHeight of the older client
GetBlocksByHeightOld(reply) ==
    CASE reply.kind = "busError"     -> [ value |-> "nil", err |-> "bus" ]
      [] reply.kind = "garbage"      -> [ value |-> "nil", err |-> "nil" ]
      [] reply.kind = "expected"     -> [ value |-> reply.items, err |-> "nil" ]
      [] reply.kind = "errorVariant" -> [ value |-> "nil", err |-> "block store error" ]
      [] OTHER                       -> [ value |-> "nil", err |-> "unexpected type" ]

\* KoinosRPC.GetBlocksByHeight of koinos_rpc.go, which PeerRPCService calls
GetBlocksByHeight(reply) ==
    CASE reply.kind = "busError"     -> [ value |-> "nil", err |-> "bus" ]
      [] reply.kind = "garbage"      -> [ value |-> "nil", err |-> "unmarshal" ]
      [] reply.kind = "expected"     -> [ value |-> reply.items, err |-> "nil" ]
      [] reply.kind = "errorVariant" -> [ value |-> "nil", err |-> "block store error" ]
      [] OTHER                       -> [ value |-> "nil", err |-> "unexpected type" ]

LocalMethods == { "ApplyBlock", "ApplyBlockBool", "GetBlocksByHeightOld" }

\* what the method fn returns on the reply
LocalReturn(fn, reply) ==
    CASE fn = "ApplyBlock"     -> ApplyBlock(reply)
      [] fn = "ApplyBlockBool" -> ApplyBlockBool(reply)
      [] OTHER                 -> GetBlocksByHeightOld(reply)

\* a GetAncestorBlockID that takes the first of the items returned
GetAncestorBlockID_firstItem(rpcResult) ==
    IF rpcResult.err # "nil"
    THEN [ err |-> rpcResult.err, ID |-> "unset" ]
    ELSE IF Len(rpcResult.value) < 1
    THEN [ err |-> "unexpected number of blocks returned", ID |-> "unset" ]
    ELSE [ err |-> "nil", ID |-> rpcResult.value[1] ]

\* PeerRPCService.GetAncestorBlockID: the error returned and response.ID,
\* from what p.local.GetBlocksByHeight returned
GetAncestorBlockID(rpcResult) ==
    IF rpcResult.err # "nil"
    THEN [ err |-> rpcResult.err, ID |-> "unset" ]
    ELSE IF Len(rpcResult.value) # 1
    THEN [ err |-> "unexpected number of blocks returned", ID |-> "unset" ]
    ELSE [ err |-> "nil", ID |-> rpcResult.value[1] ]

InitRPC ==
    /\ RpcConstructed
    /\ ctxDone = FALSE
    /\ \E o \in OptionSets : ScoreConstructed(o)
    /\ ConnConstructed({})
    /\ node = NoNode
    /\ PeerConstructed
    /\ GossipConstructed
    /\ TrackerConstructed(1)

\* a method of KoinosRPC is called and the bus replies
CallLocal(fn, reply) ==
    /\ localCall' = [ fn |-> fn, reply |-> reply, ret |-> LocalReturn(fn, reply) ]
    /\ UNCHANGED << scoreVars, connVars, nodeVars, peerVars, gossipVars, trackerVars,
                    ancestorCall, ctxDone >>

\* a peer calls GetAncestorBlockID, which calls GetBlocksByHeight of the
\* local chain
CallGetAncestorBlockID(reply) ==
    /\ ancestorCall' = [ fn    |-> "GetAncestorBlockID",
                         reply |-> reply,
                         ret   |-> GetAncestorBlockID(GetBlocksByHeight(reply)) ]
    /\ UNCHANGED << scoreVars, connVars, nodeVars, peerVars, gossipVars, trackerVars,
                    localCall, ctxDone >>

NextRPC ==
    \/ \E fn \in LocalMethods, reply \in BusReplies : CallLocal(fn, reply)
    \/ \E reply \in BusReplies : CallGetAncestorBlockID(reply)

SpecRPC == InitRPC /\ [][NextRPC]_vars

\* ----------------------------------------------------------- SpecTracker

\* the largest head height of a run, apart from those of the sync scenario
MaxHeight == 3

\* the head heights of a run: the small ones, and 100 and 500
Heights == (0 .. MaxHeight) \cup { 100, 500 }

\* the configured window sizes
WindowSizes == { 1, 2, 64 }

\* the greatest head height among the peers
maxPeerHead(peerHeads) ==
    CHOOSE h \in { peerHeads[p] : p \in Peers } :
        \A p \in Peers : peerHeads[p] <= h

\* a window computed without the lower limit 0
downloadInterest_unclamped(localHead, maxHead, WindowSize) ==
    LET ahead == maxHead - localHead
    IN  [ NodeHeight          |-> localHead,
          InterestStartHeight |-> localHead + 1,
          InterestNumBlocks   |-> IF ahead < WindowSize THEN ahead ELSE WindowSize ]

\* the DownloadInterest the tracker derives: it starts after the local head
\* and holds min(WindowSize, max(0, maxPeerHead - localHead)) blocks
downloadInterest(localHead, maxHead, WindowSize) ==
    LET ahead == IF maxHead > localHead THEN maxHead - localHead ELSE 0
    IN  [ NodeHeight          |-> localHead,
          InterestStartHeight |-> localHead + 1,
          InterestNumBlocks   |-> IF ahead < WindowSize THEN ahead ELSE WindowSize ]

InitTracker ==
    /\ \E w \in WindowSizes : TrackerConstructed(w)
    /\ PeerConstructed
    /\ RpcConstructed
    /\ GossipConstructed
    /\ ctxDone = FALSE
    /\ ConnConstructed({})
    /\ \E o \in OptionSets : ScoreConstructed(o)
    /\ node = NoNode

\* a fork-heads update of the bus gives the local head; the interest is
\* derived again and broadcast to the workers
ForkHeadsUpdate(height) ==
    /\ ~ctxDone
    /\ tracker' = [ tracker EXCEPT
                      !.localHead = height,
                      !.interest = downloadInterest(height,
                                       maxPeerHead(tracker.peerHeads),
                                       tracker.WindowSize) ]
    /\ UNCHANGED << scoreVars, connVars, nodeVars, peerVars, rpcVars, gossipVars,
                    ctxDone >>

\* a worker reports the head of its peer; the interest is derived again
\* and broadcast to the workers
PeerHeadUpdate(p, height) ==
    /\ ~ctxDone
    /\ LET heads == [ tracker.peerHeads EXCEPT ![p] = height ]
       IN  tracker' = [ tracker EXCEPT
                          !.peerHeads = heads,
                          !.interest = downloadInterest(tracker.localHead,
                                           maxPeerHead(heads),
                                           tracker.WindowSize) ]
    /\ UNCHANGED << scoreVars, connVars, nodeVars, peerVars, rpcVars, gossipVars,
                    ctxDone >>

NextTracker ==
    \/ \E height \in Heights : ForkHeadsUpdate(height)
    \/ \E p \in Peers, height \in Heights : PeerHeadUpdate(p, height)
    \/ CancelRoot

SpecTracker == InitTracker /\ [][NextTracker]_vars

\* ---------------------------------------------------------------- claims

\* score * 2^(-dt/halflife) < bound, in exact arithmetic
DecaysBelow(score, dt, halflife, bound) ==
    score ^ halflife < (bound ^ halflife) * (2 ^ dt)

\* r is score * 2^(-dt/halflife) rounded down, in exact arithmetic
IsFloorOfDecay(r, score, dt, halflife) ==
    /\ r >= 0
    /\ ~DecaysBelow(score, dt, halflife, r)
    /\ DecaysBelow(score, dt, halflife, r + 1)

\* C1: a canConnect(p) query the handler task processes is answered true iff
\* p has no score record or p's score, decayed from its lastUpdate to the time
\* of the query, is strictly less than ErrorScoreThreshold.
C1_CanConnectIffBelowThreshold ==
    [][ \A c \in Callers :
          RecvCanConnect(c) =>
              LET id == callers[c].id
              IN  resultChan'[c] =
                    << \/ id \notin DOMAIN errorScores
                       \/ DecaysBelow(errorScores[id].score,
                                      now - errorScores[id].lastUpdate,
                                      opts.ErrorScoreDecayHalflife,
                                      opts.ErrorScoreThreshold) >> ]_vars

\* C1 witness: a query was refused for a peer whose record, decayed at the time
\* of the query, is at or above the threshold.
C1_Witness ==
    \E c \in Callers :
        /\ callers[c].pc = "recv"
        /\ resultChan[c] = << FALSE >>
        /\ callers[c].id \in DOMAIN errorScores
        /\ errorScores[callers[c].id].lastUpdate = now
        /\ now > 0

\* C2: a report for p at time t2 sets p's score to weight(kind) when p has no
\* record and otherwise to the stored score decayed from its lastUpdate to t2,
\* rounded down, plus weight(kind); lastUpdate becomes t2; no other peer's
\* record changes.
C2_ReportAddsWeightToDecayedScore ==
    [][ \A id \in Peers, err \in ReportedErrors :
          RecvError(id, err) =>
              /\ id \in DOMAIN errorScores'
              /\ errorScores'[id].lastUpdate = now
              /\ IF id \in DOMAIN errorScores
                 THEN IsFloorOfDecay(
                          errorScores'[id].score - getScoreForError(opts, err),
                          errorScores[id].score,
                          now - errorScores[id].lastUpdate,
                          opts.ErrorScoreDecayHalflife)
                 ELSE errorScores'[id].score = getScoreForError(opts, err)
              /\ \A q \in Peers \ {id} :
                    /\ q \in DOMAIN errorScores' <=> q \in DOMAIN errorScores
                    /\ q \in DOMAIN errorScores => errorScores'[q] = errorScores[q]
      ]_vars

\* C2 witness: a peer with a record of score 4 last updated a tick ago (which
\* decays to 2) while the other peer has a record too, and the handler is about
\* to process a report of weight 2 for it, which leaves score 4 at the current
\* time.
C2_Witness ==
    \E id \in Peers :
        /\ DOMAIN errorScores = Peers
        /\ errorScores[id].score = 4
        /\ errorScores[id].lastUpdate = now - 1
        /\ ENABLED ( /\ RecvError(id, "ErrOther")
                     /\ errorScores'[id] = [ lastUpdate |-> now, score |-> 4 ] )

\* C3: a report that leaves the peer's score >= ErrorScoreThreshold spawns one
\* emission of that peer's ID, which is eventually sent on the disconnect
\* channel unless the scope is cancelled; a report that leaves the score below
\* the threshold spawns none; an ID is sent only by such an emission.
C3_EmissionSpawnedIffAtThreshold ==
    [][ /\ \A id \in Peers, err \in ReportedErrors :
             RecvError(id, err) =>
                 disconnectGo' =
                     IF errorScores'[id].score >= opts.ErrorScoreThreshold
                     THEN [ disconnectGo EXCEPT ![id] = @ + 1 ]
                     ELSE disconnectGo
        /\ \A id \in Peers :
             /\ disconnectPeerChan'[id] <= disconnectPeerChan[id] + 1
             /\ disconnectPeerChan'[id] > disconnectPeerChan[id] =>
                    disconnectGo'[id] = disconnectGo[id] - 1
             /\ disconnectGo'[id] > disconnectGo[id] =>
                    \E err \in ReportedErrors : RecvError(id, err)
      ]_vars

C3_EmissionEventuallySent ==
    \A id \in Peers : \A k \in 0..(MaxEmit - 1) :
        (disconnectGo[id] > 0 /\ disconnectPeerChan[id] = k)
            ~> (disconnectPeerChan[id] > k \/ ctxDone)

\* C3: both parts: the emission is spawned iff the report leaves the score at
\* or above the threshold, and a spawned emission is eventually sent unless the
\* scope is cancelled.
C3_DisconnectSignalled ==
    C3_EmissionSpawnedIffAtThreshold /\ C3_EmissionEventuallySent

\* C3 witness: the ID of a peer whose score a report raised to the threshold
\* has been sent on the disconnect channel, the scope not being cancelled.
C3_Witness ==
    \E id \in Peers :
        /\ disconnectPeerChan[id] > 0
        /\ ~ctxDone
        /\ errorScores[id].score >= opts.ErrorScoreThreshold

\* C4: every recorded score is >= 0, and a step that is not the processing of
\* a report for the peer never increases the peer's score (nor drops its
\* record).
C4_ScoreNonNegativeAndNonIncreasing ==
    /\ [](\A id \in DOMAIN errorScores : errorScores[id].score >= 0)
    /\ [][ \A id \in DOMAIN errorScores :
             \/ \E err \in ReportedErrors : RecvError(id, err)
             \/ /\ id \in DOMAIN errorScores'
                /\ errorScores'[id].score <= errorScores[id].score ]_vars

\* C4 witness: a record whose score a query has decayed to 0 (every weight is
\* positive, so only a decay yields 0).
C4_Witness ==
    \E id \in DOMAIN errorScores :
        /\ errorScores[id].score = 0
        /\ errorScores[id].lastUpdate = now


\* ------------------------------------------------- claims on ConnectionManager

\* C5: whatever Connected and Disconnected events were handled, each peer has
\* at most one worker that was not cancelled, and has it exactly when it is
\* tracked; handling a Connected event of a tracked peer leaves the tracked
\* peers and their workers as they are.
C5_OneWorkerPerPeer ==
    \A p \in Peers : liveWorkers[p] = IF p \in connectedPeers THEN 1 ELSE 0

C5_ConnectedOfTrackedIsNoOp ==
    [][ \A id \in connectedPeers, from \in { "host", "start" } :
          ((events' # events \/ startGo' # startGo) /\ MgrConnected(id, from)) =>
              UNCHANGED << connectedPeers, liveWorkers >> ]_vars

C5_AtMostOneLiveWorker ==
    /\ []C5_OneWorkerPerPeer
    /\ C5_ConnectedOfTrackedIsNoOp

\* a tracked peer with its one worker, of which a further Connected event
\* is handled with the peer still tracked and still with one worker
C5_Witness ==
    \E p \in connectedPeers :
        /\ liveWorkers[p] = 1
        /\ ENABLED (/\ MgrConnected(p, "host")
                    /\ p \in connectedPeers'
                    /\ liveWorkers'[p] = 1)

\* C6: handling Disconnected(p) of a tracked p cancels p's worker and untracks
\* p, and adds one reconnection task, for p, if p is a seed and none if it is
\* not; handling Disconnected(p) of an untracked p changes nothing but the
\* event being consumed.
C6_DisconnectedHandling ==
    [][ \A id \in Peers :
          (events' # events /\ MgrDisconnected(id)) =>
            IF id \in connectedPeers
            THEN /\ connectedPeers' = connectedPeers \ {id}
                 /\ liveWorkers' = [ liveWorkers EXCEPT ![id] = 0 ]
                 /\ IF id \in initialPeers
                    THEN reconnectGo' = reconnectGo (+) SetToBag({ NewReconnect(id) })
                    ELSE reconnectGo' = reconnectGo
            ELSE UNCHANGED << scoreVars, nodeVars, peerVars, rpcVars, gossipVars, trackerVars, ctxDone, initialPeers, connectedPeers,
                              liveWorkers, startGo, mgrPc, initGo, reconnectGo,
                              signalGo >> ]_vars

\* a seed that was tracked is untracked and has a fresh reconnection task
C6_Witness ==
    \E p \in initialPeers :
        /\ p \notin connectedPeers
        /\ liveWorkers[p] = 0
        /\ BagIn(NewReconnect(p), reconnectGo)

\* the sleeps and the times of the attempts that C7 lists
ExpectedSleeps == << 1, 2, 4, 8, 16, 30, 30 >>

ExpectedTimes == << 0, 1, 3, 7, 15, 31, 61 >>

\* the backoff loops: the reconnection tasks and connectInitialPeers
BackoffLoops == BagToSet(reconnectGo) \cup { initGo }

\* C7: a backoff loop that failed n times sleeps next for the (n+1)-th of
\* 1, 2, 4, 8, 16, 30, 30 seconds and makes its next attempt at the (n+1)-th
\* of t = 0, 1, 3, 7, 15, 31, 61; its sleep is never above 30 seconds.
C7_BackoffSchedule ==
    \A g \in BackoffLoops :
        /\ g.sleepTimeSeconds <= 30
        /\ (g.attempts < MaxAttempts /\ g.attempts < Len(ExpectedTimes)) =>
              /\ g.sleepTimeSeconds = ExpectedSleeps[g.attempts + 1]
              /\ g.elapsed = ExpectedTimes[g.attempts + 1]

\* C7: a reconnection task whose connect succeeds is gone with that step, so
\* it makes no further attempt.
C7_StopsAfterSuccess ==
    [][ \A g \in BagToSet(reconnectGo) :
          (reconnectGo' # reconnectGo /\ ReconnectAttempt(g, TRUE)) =>
            /\ BagCardinality(reconnectGo') = BagCardinality(reconnectGo) - 1
            /\ CopiesIn(g, reconnectGo') = CopiesIn(g, reconnectGo) - 1 ]_vars

C7_Backoff ==
    /\ []C7_BackoffSchedule
    /\ C7_StopsAfterSuccess

\* a reconnection task about to make its seventh attempt, at t = 61
C7_Witness ==
    \E g \in BagToSet(reconnectGo) :
        g.attempts = 6 /\ g.elapsed = 61 /\ g.sleepTimeSeconds = 30

\* C8: once the root scope is cancelled, eventually no reconnection task is
\* left and connectInitialPeers is not running.
C8_LoopsStopAfterCancel ==
    ctxDone ~> (reconnectGo = EmptyBag /\ initGo.pc \in { "notStarted", "done" })

\* the root scope is cancelled and a backoff loop is still making attempts
C8_Witness ==
    /\ ctxDone
    /\ \E g \in BackoffLoops : g.attempts = MaxAttempts
    /\ \/ initGo.pc \in { "loop", "range" }
       \/ reconnectGo # EmptyBag

\* C9: peersToConnect is all the seeds when connectInitialPeers begins and a
\* subset of them after; the peers that leave it at the end of a cycle are
\* those to which a connect succeeded in that cycle, and no peer leaves it at
\* another step; the loop has returned only with peersToConnect empty, and
\* returns at its test when it is; without seeds it makes no attempt.
C9_PendingInvariant ==
    /\ initGo.peersToConnect \subseteq initialPeers
    /\ initGo.newlyConnectedPeers \subseteq initialPeers
    /\ initGo.pc = "done" => initGo.peersToConnect = {}
    /\ initialPeers = {} => (initGo.pc \in { "notStarted", "loop", "done" }
                              /\ initGo.attempts = 0)

C9_PendingSteps ==
    [][ initGo' # initGo =>
          IF initGo.pc = "range"
          THEN \A id \in initGo.todo, ok \in BOOLEAN :
                  InitAttempt(id, ok) =>
                    initGo'.peersToConnect =
                      IF initGo.todo = {id}
                      THEN initGo.peersToConnect
                             \ (initGo.newlyConnectedPeers \cup (IF ok THEN {id} ELSE {}))
                      ELSE initGo.peersToConnect
          ELSE /\ initGo.peersToConnect \subseteq initGo'.peersToConnect
               /\ (initGo.pc = "loop" /\ initGo.peersToConnect = {}) =>
                     initGo'.pc = "done" ]_vars

C9_InitialPeersLoop ==
    /\ []C9_PendingInvariant
    /\ C9_PendingSteps

\* connectInitialPeers returned after the second cycle, in which the last of
\* its two seeds connected
C9_Witness ==
    /\ initialPeers = { "p1", "p2" }
    /\ initGo.pc = "done"
    /\ initGo.attempts = 2
    /\ initGo.peersToConnect = {}

\* C10: when the goroutine of Start goes to send the Connected event of a peer
\* to which the host has a connection, then eventually the manager loop and
\* connectInitialPeers are started, unless the root scope is cancelled first.
C10_StartCompletes ==
    \A p \in Peers :
        (startGo.pc = "send" /\ startGo.cur = p) ~>
            \/ (mgrPc # "notStarted" /\ initGo.pc # "notStarted")
            \/ ctxDone

\* the goroutine of Start is blocked in its send and no manager loop runs
C10_Witness ==
    /\ startGo.pc = "send"
    /\ mgrPc = "notStarted"
    /\ initGo.pc = "notStarted"

\* C11: handling Disconnected(p) leaves every other peer as it is: tracked if
\* it was tracked, untracked if it was not, and with the workers it had.
C11_OtherPeersUnaffected ==
    [][ \A id \in Peers :
          (events' # events /\ MgrDisconnected(id)) =>
              \A q \in Peers \ {id} :
                  /\ (q \in connectedPeers') = (q \in connectedPeers)
                  /\ liveWorkers'[q] = liveWorkers[q] ]_vars

\* both peers are tracked, and handling Disconnected of one of them leaves the
\* other tracked with its worker
C11_Witness ==
    /\ connectedPeers = Peers
    /\ ENABLED (/\ MgrDisconnected("p1")
                /\ connectedPeers' = { "p2" }
                /\ liveWorkers' = [ liveWorkers EXCEPT !["p1"] = 0 ])

\* C12: the step in which managerLoop sees the cancelled root scope cancels
\* every tracked worker, empties connectedPeers and ends the loop; once the
\* loop has ended no worker is uncancelled and none is created.
C12_CancelStep ==
    [][ (mgrPc' # mgrPc /\ MgrCtxDone) =>
            /\ ctxDone
            /\ connectedPeers' = {}
            /\ \A p \in Peers : liveWorkers'[p] = 0
            /\ mgrPc' = "exited" ]_vars

C12_NoWorkerAfterExit ==
    mgrPc = "exited" =>
        /\ ctxDone
        /\ connectedPeers = {}
        /\ \A p \in Peers : liveWorkers[p] = 0

\* C12: while the manager loop runs with its root scope cancelled, the branch
\* of its select that ends it is ready, whatever else is ready.
C12_LoopCanEnd ==
    (ctxDone /\ mgrPc = "running") => ENABLED MgrCtxDone

C12_RootCancelStopsManager ==
    /\ C12_CancelStep
    /\ [](C12_NoWorkerAfterExit /\ C12_LoopCanEnd)

\* the root scope is cancelled with both peers tracked, and the manager loop
\* ends cancelling both workers
C12_Witness ==
    /\ ctxDone
    /\ connectedPeers = Peers
    /\ ENABLED (/\ MgrCtxDone
                /\ connectedPeers' = {}
                /\ liveWorkers' = [ p \in Peers |-> 0 ])

\* ------------------------------------------------- claims on KoinosP2PNode

\* C13: the step of Close leaves the host closed and the scope under which
\* Start spawned the background tasks cancelled.
C13_CloseCancelsScope ==
    [][ (node'.hostClosed /\ ~node.hostClosed) =>
            (node'.hostClosed /\ ctxDone') ]_vars

\* a started node was closed and its sync manager still runs under a scope
\* that is not cancelled
C13_Witness ==
    /\ node.pc = "started"
    /\ node.hostClosed
    /\ ~ctxDone
    /\ node.sync = "running"

\* --------------------------------------------------- claims on PeerHandler

\* the update nodeUpdateLoop holds is the last one it received
C14_HoldsMostRecent ==
    nodeUpdateGo.hasValue => nodeUpdateGo.value = Update(updatesSent)

\* a delivery hands the worker loop the last update received so far
C14_DeliveryStep ==
    [][ (peerLoop'.lastNodeUpdate # peerLoop.lastNodeUpdate /\ NodeUpdateDeliver) =>
            peerLoop'.lastNodeUpdate = Update(updatesSent) ]_vars

\* the worker loop never goes back to an older update
C14_NeverOlder ==
    [][ peerLoop'.lastNodeUpdate.NodeHeight >= peerLoop.lastNodeUpdate.NodeHeight ]_vars

\* C14: every update nodeUpdateLoop delivers to the worker loop is the most
\* recent one it had received when it delivers; once a newer update is
\* received an older one is never delivered.
C14_LastValueWins ==
    C14_DeliveryStep /\ C14_NeverOlder /\ []C14_HoldsMostRecent

\* three updates were received while the worker loop observed none, and the
\* delivery that can happen now hands it the third
C14_Witness ==
    /\ updatesSent = 3
    /\ peerLoop.lastNodeUpdate = Update(0)
    /\ nodeUpdateGo.hasValue
    /\ ENABLED (NodeUpdateDeliver /\ peerLoop'.lastNodeUpdate = Update(3))

\* what nodeUpdateLoop holds was not delivered yet
C15_HeldIsUndelivered ==
    nodeUpdateGo.hasValue =>
        nodeUpdateGo.value.NodeHeight > peerLoop.lastNodeUpdate.NodeHeight

\* a delivery hands over an update that was never delivered before, and
\* leaves nothing held
C15_DeliveredOnce ==
    [][ NodeUpdateDeliver =>
            /\ peerLoop'.lastNodeUpdate.NodeHeight > peerLoop.lastNodeUpdate.NodeHeight
            /\ ~nodeUpdateGo'.hasValue ]_vars

\* C15: nodeUpdateLoop holds at most one undelivered update (its one value,
\* if hasValue), and each received update is delivered at most once.
C15_AtMostOneHeld ==
    C15_DeliveredOnce /\ []C15_HeldIsUndelivered

\* the one update received was delivered, both loops are at their select
\* and nothing is held: it cannot be delivered again
C15_Witness ==
    /\ updatesSent = 1
    /\ peerLoop.lastNodeUpdate = Update(1)
    /\ peerLoop.pc = "select"
    /\ nodeUpdateGo.pc = "select"
    /\ ~nodeUpdateGo.hasValue
    /\ ~ENABLED NodeUpdateDeliver

\* the calls to the peer that did not return yet
InFlight ==
    (IF peerLoop.pc = "rpc" THEN 1 ELSE 0)
        + Cardinality({ g \in downloadGo : g.pc = "rpc" })

\* C16: at any time at most one RPC to the peer, poll or download, is in
\* flight.
C16_RpcSerialized == InFlight <= 1

\* a poll and a download are in flight together
C16_Witness ==
    /\ peerLoop.pc = "rpc"
    /\ \E g \in downloadGo : g.pc = "rpc"

\* C17: the download responses are delivered in the order of the requests:
\* requests of ascending height give responses of strictly ascending height.
C17_ResponsesInRequestOrder ==
    \A i, j \in 1..Len(downloadResponseChan) :
        i < j => downloadResponseChan[i].Topology < downloadResponseChan[j].Topology

\* the response to the second request was sent before that to the first
C17_Witness ==
    /\ Len(downloadResponseChan) = 2
    /\ downloadResponseChan[1].Topology = 2
    /\ downloadResponseChan[2].Topology = 1

\* C18: every download response names the topology of a request and the
\* worker's PeerID, and carries exactly one of a block and an error.
C18_ResponseWellFormed ==
    \A i \in 1..Len(downloadResponseChan) :
        /\ downloadResponseChan[i].Topology \in 1..requestsSent
        /\ downloadResponseChan[i].PeerID = peerID
        /\ (downloadResponseChan[i].Block # "none") # (downloadResponseChan[i].Err # "none")

\* a response was sent that carries neither a block nor an error
C18_Witness ==
    \E i \in 1..Len(downloadResponseChan) :
        /\ downloadResponseChan[i].Block = "none"
        /\ downloadResponseChan[i].Err = "none"

\* C19: when a poll cycle failed, a PeerError of the peer is eventually
\* posted on the error channel, unless the scope is cancelled.
C19_PollErrorPosted ==
    pollFailed ~> (errChan # << >> \/ ctxDone)

\* a poll cycle failed, nothing was posted and the scope is not cancelled
C19_Witness ==
    /\ pollFailed
    /\ errChan = << >>
    /\ ~ctxDone
    /\ peerLoop.pc = "select"

\* the worker loop ends only when its scope is cancelled
C20_ExitsOnlyOnCancel == peerLoop.pc = "exited" => ctxDone

\* at its select the worker loop can poll, take the next download request
\* and take the update nodeUpdateLoop holds
C20_SelectServes ==
    peerLoop.pc = "select" =>
        /\ ENABLED PollStart
        /\ (requestsSent < MaxRequests) => ENABLED AcceptDownload
        /\ (nodeUpdateGo.pc = "select" /\ nodeUpdateGo.hasValue) =>
              ENABLED NodeUpdateDeliver

\* the reply of a poll, failed or not, leaves the loop in the cycle or back
\* at its select; the reply of a download leaves the loop where it is
C20_ReplySteps ==
    [][ /\ (peerLoop.pc = "rpc" /\ peerLoop'.pc # "rpc") =>
              peerLoop'.pc = IF peerLoop'.todo > 0 THEN "forward" ELSE "select"
        /\ downloadGo' # downloadGo => peerLoop' = peerLoop ]_vars

\* C20: a failed poll or a failed download does not end the worker loop: it
\* is back at its select, where it polls again and takes requests and
\* updates, until its scope is cancelled.
C20_ErrorsDoNotEndWorker ==
    C20_ReplySteps /\ [](C20_ExitsOnlyOnCancel /\ C20_SelectServes)

\* after a failed poll and a failed download the loop polls again, the
\* scope not being cancelled
C20_Witness ==
    /\ pollFailed
    /\ ~ctxDone
    /\ peerLoop.pc = "rpc"
    /\ \E i \in 1..Len(downloadResponseChan) : downloadResponseChan[i].Err # "none"

\* ------------------------------------------- claims on the connection gate

\* canConnect admits id now: it has no record, or its score decayed to now
\* is below the threshold
C21_BelowThreshold(id) ==
    \/ id \notin DOMAIN errorScores
    \/ DecaysBelow(errorScores[id].score, now - errorScores[id].lastUpdate,
                   opts.ErrorScoreDecayHalflife, opts.ErrorScoreThreshold)

\* InterceptPeerDial and InterceptSecured return what the handler task
\* answers to their query
C21_DialAndSecured ==
    [][ \A c \in Callers :
          RecvCanConnect(c) =>
              resultChan'[c] = << C21_BelowThreshold(callers[c].id) >> ]_vars

\* InterceptAccept admits a connection of a peer iff canConnect admits it
C21_Accept ==
    \A id \in Peers : InterceptAccept([ remote |-> id ]) = C21_BelowThreshold(id)

\* C21: at each of the three gate points, dial, accept and secured, a peer
\* is admitted iff its decayed score is below ErrorScoreThreshold.
C21_GateConsultsCanConnect == C21_DialAndSecured /\ []C21_Accept

\* a peer whose score, just updated, is at the threshold, and whose inbound
\* connection InterceptAccept admits
C21_Witness ==
    \E id \in DOMAIN errorScores :
        /\ errorScores[id].lastUpdate = now
        /\ errorScores[id].score >= opts.ErrorScoreThreshold
        /\ InterceptAccept([ remote |-> id ])

\* C24: a call of CanConnect always returns: when the handler task has
\* exited, a caller at the send of its query is released.
C24_CanConnectReturns ==
    \A c \in Callers :
        (callers[c].pc = "send" /\ handlerPc = "exited") =>
            ENABLED (NextScore /\ callers'[c] # callers[c])

\* a caller is at the send of its query, the scope is cancelled and the
\* handler task has returned
C24_Witness ==
    \E c \in Callers :
        /\ callers[c].pc = "send"
        /\ handlerPc = "exited"
        /\ ctxDone

\* ------------------------------------------- claims on the handler task

\* a first report of weight 100 leaves score 100 and signals nothing
C22_FirstReport ==
    [][ (perr.busy /\ perr.id \notin DOMAIN errorScores /\ FinishError) =>
            /\ errorScores'[perr.id].score = 100
            /\ disconnectGo' = disconnectGo ]_vars

\* a report received one halflife after the score was set to 100 first
\* decays it to 50
C22_DecayAfterHalflife ==
    [][ \A id \in Peers, err \in ScenarioErrors :
          ( /\ id \in DOMAIN errorScores
            /\ errorScores[id] = [ lastUpdate |-> now - 1, score |-> 100 ]
            /\ TakeError(id, err) ) =>
                errorScores'[id] = [ lastUpdate |-> now, score |-> 50 ] ]_vars

\* and then adds 100: the score is 150, at the threshold, and the goroutine
\* that signals the disconnect of the peer is spawned
C22_SecondReport ==
    [][ ( /\ perr.busy
          /\ perr.id \in DOMAIN errorScores
          /\ errorScores[perr.id].score = 50
          /\ FinishError ) =>
              /\ errorScores'[perr.id].score = 150
              /\ disconnectGo' = [ disconnectGo EXCEPT ![perr.id] = @ + 1 ] ]_vars

\* C22: with weight 100, halflife 60 s and threshold 150, one report gives
\* score 100 and no disconnect signal; a second report one halflife later
\* gives 50 + 100 = 150 and a disconnect signal for the peer.
C22_Scenario == C22_FirstReport /\ C22_DecayAfterHalflife /\ C22_SecondReport

\* the second report, one halflife after the first, has left score 150 and
\* the signal of the disconnect is on its way or sent
C22_Witness ==
    \E id \in DOMAIN errorScores :
        /\ now = 1
        /\ errorScores[id] = [ lastUpdate |-> 1, score |-> 150 ]
        /\ disconnectGo[id] + disconnectPeerChan[id] = 1

\* a query is answered, a report is taken and the task returns only when no
\* report is being applied
C23_NoInterleaving ==
    [][ /\ \A c \in Callers : RecvCanConnect(c) => ~perr.busy
        /\ \A id \in Peers, err \in ScenarioErrors : TakeError(id, err) => ~perr.busy
        /\ handlerPc' # handlerPc => ~perr.busy ]_vars

\* the map changes only in a step of the handler task, and the report that
\* is applied is the one taken last
C23_OnlyHandlerWrites ==
    [][ errorScores' # errorScores =>
            \/ \E id \in Peers, err \in ScenarioErrors : TakeError(id, err)
            \/ \E c \in Callers : RecvCanConnect(c)
            \/ /\ FinishError
               /\ errorScores'[perr.id].score =
                     (IF perr.id \in DOMAIN errorScores
                      THEN errorScores[perr.id].score ELSE 0)
                         + getScoreForError(opts, perr.err) ]_vars

\* C23: the score map is read and written by the handler task alone, one
\* message at a time: reports are applied in the order received and no
\* query is answered from a partly applied report.
C23_SingleConsumer ==
    C23_NoInterleaving /\ C23_OnlyHandlerWrites /\ [](perr.busy => handlerPc = "running")

\* a report for a peer is partly applied (its record decayed, the weight
\* not added yet) while a query for the same peer waits at its send, and the
\* query cannot be taken now
C23_Witness ==
    \E c \in Callers :
        /\ perr.busy
        /\ perr.id \in DOMAIN errorScores
        /\ callers[c].pc = "send"
        /\ callers[c].id = perr.id
        /\ ~ENABLED RecvCanConnect(c)

\* ------------------------------------- claims on the host's notifications

\* Connected, called by the host for a connection of id, returns: its one
\* statement, the send on peerConnectedChan, is received
C25_ConnectedReturns(id) == ENABLED MgrConnected(id, "host")

\* Disconnected returns: its send on peerDisconnectedChan is received
C25_DisconnectedReturns(id) == ENABLED MgrDisconnected(id)

\* C25: a Connected or Disconnected notification never blocks its caller
\* for ever: also when managerLoop has returned after the cancellation of
\* the root scope, a notification the host makes returns.
C25_NotificationReturns ==
    (mgrPc = "exited" /\ events < MaxEvents) =>
        \A id \in Peers : C25_ConnectedReturns(id) /\ C25_DisconnectedReturns(id)

\* the root scope is cancelled, managerLoop has returned and the host has a
\* notification to make
C25_Witness ==
    /\ ctxDone
    /\ mgrPc = "exited"
    /\ events < MaxEvents
    /\ ~ENABLED MgrConnected("p1", "host")

\* ------------------------------------------------ claims on the RPC layer

\* C26: GetAncestorBlockID returns the ID of the single item when the local
\* chain returns exactly one item, and else (no item, several items, or a
\* failure of the local call) returns an error and leaves response.ID unset.
C26_AncestorExactlyOne ==
    ancestorCall.fn # "none" =>
        IF ancestorCall.reply.kind = "expected" /\ Len(ancestorCall.reply.items) = 1
        THEN ancestorCall.ret = [ err |-> "nil", ID |-> ancestorCall.reply.items[1] ]
        ELSE ancestorCall.ret.err # "nil" /\ ancestorCall.ret.ID = "unset"

\* the local chain returned two items: an error, and no ID
C26_Witness ==
    /\ ancestorCall.fn = "GetAncestorBlockID"
    /\ ancestorCall.reply.kind = "expected"
    /\ Len(ancestorCall.reply.items) = 2
    /\ ancestorCall.ret.err # "nil"
    /\ ancestorCall.ret.ID = "unset"

\* C27: a Local Chain RPC call returns a non-nil error whenever the bus call
\* fails, the reply does not deserialize, or the reply is the error variant
\* or an unexpected variant.
C27_FailureIsAnError ==
    (localCall.fn # "none" /\ localCall.reply.kind # "expected") =>
        localCall.ret.err # "nil"

\* the reply did not deserialize and the call returned false with a nil
\* error
C27_Witness ==
    /\ localCall.fn = "ApplyBlockBool"
    /\ localCall.reply.kind = "garbage"
    /\ localCall.ret = [ value |-> FALSE, err |-> "nil" ]

\* ------------------------------------------------- claims on the message ID

\* the ID the code would give the message had it another sender, sequence
\* number and topic
C28_PayloadOnly ==
    message # NoMessage =>
        \A from \in Peers, seqno \in Seqnos, topic \in Topics :
            message.ID = generateMessageID([ From |-> from, Seqno |-> seqno,
                                             Topic |-> topic, Data |-> message.Data ])

C28_Base64URL ==
    message # NoMessage =>
        message.ID = EncodeToString(encodeURL, sha256(message.Data))

\* C28: the ID of a gossip message depends on its payload only, whatever
\* its sender, sequence number and topic, and it is the SHA-256 digest of
\* the payload in base64url without padding
C28_MessageID == C28_PayloadOnly /\ C28_Base64URL

\* a message whose digest has a sextet 62 or 63 has got its ID
C28_Witness ==
    /\ message # NoMessage
    /\ \E i \in 1 .. Len(message.ID) : message.ID[i] \in { "+", "/" }
    /\ Len(message.ID) = 43

\* --------------------------------------------------- claims on node start

\* Start turns gossip on exactly if ForceGossip is set
C29_StartActivates ==
    [][ (node.pc = "constructed" /\ node'.pc = "started")
            => ((node'.gossip = "on") <=> node.ForceGossip) ]_vars

\* gossip is never active on a node made without ForceGossip: the sync
\* manager of the node is not given its gossip
C29_InactiveWithout == [](~node.ForceGossip => node.gossip = "off")

\* C29: Start activates gossip at once if and only if ForceGossip is set;
\* without ForceGossip neither Start nor anything after it activates gossip
C29_GossipOnlyIfForced == C29_StartActivates /\ C29_InactiveWithout

\* a node made without ForceGossip was started, its sync manager runs, a
\* message came in, and its gossip is off
C29_Witness ==
    /\ node.pc = "started"
    /\ ~node.ForceGossip
    /\ node.sync = "running"
    /\ node.gossip = "off"
    /\ message # NoMessage

\* ------------------------------------------------ claims on node creation

\* the listen addresses of ListenAddrs that are multiaddresses
C30_ValidAddrs ==
    { << "", "ip4", << 127, 0, 0, 1 >>, "tcp", 8765 >>,
      << "", "ip4", << 0, 0, 0, 0 >>, "tcp", 0 >> }

\* what a creation gives: an error and no node, or a node with an open host
C30_Outcome ==
    [][ \A listenAddr \in ListenAddrs, seed \in Seeds, random \in RandomSeeds,
           forceGossip \in BOOLEAN :
           (node'.created # node.created
               /\ NewKoinosP2PNode(listenAddr, seed, random, forceGossip))
           => IF listenAddr \in C30_ValidAddrs
              THEN /\ node'.pc = "constructed"
                   /\ ~node'.hostClosed
                   /\ node'.listenAddr = listenAddr
              ELSE node'.pc = "failed" ]_vars

\* after the node was closed, a node can be created on its address, with
\* an explicit and with a blank seed
C30_AfterClose ==
    []((node.pc = "constructed" /\ node.hostClosed /\ node.created < MaxNodes)
        => \A seed \in Seeds :
             ENABLED (/\ \E random \in RandomSeeds :
                           NewKoinosP2PNode(node.listenAddr, seed, random, FALSE)
                      /\ node'.pc = "constructed"))

C31_InterestWindow ==
    tracker.interest # NoInterest =>
        LET start == tracker.interest.InterestStartHeight
            num   == tracker.interest.InterestNumBlocks
            head  == tracker.localHead
            top   == maxPeerHead(tracker.peerHeads)
        IN  /\ start = head + 1
            /\ num \in 0 .. tracker.WindowSize
            /\ top <= head => num = 0
            /\ top > head =>
                 /\ start + num - 1 <= top
                 /\ num = tracker.WindowSize \/ start + num - 1 = top
            /\ (head = 100 /\ top = 500 /\ tracker.WindowSize = 64)
                 => (start = 101 /\ num = 64)

\* the interest of the sync scenario was broadcast
C31_Witness ==
    /\ tracker.localHead = 100
    /\ maxPeerHead(tracker.peerHeads) = 500
    /\ tracker.WindowSize = 64
    /\ tracker.interest.InterestStartHeight = 101
    /\ tracker.interest.InterestNumBlocks = 64

\* ------------------------------------------ claims on the error-score records

\* a record appears only in a step that handles a report against its peer
C32_CreatedOnReport ==
    [][ \A id \in Peers :
          (id \notin DOMAIN errorScores /\ id \in DOMAIN errorScores')
              => /\ \E err \in ReportedErrors :
                      errorScores'[id] = [ lastUpdate |-> now,
                                           score |-> getScoreForError(opts, err) ]
                 /\ handlerPc = "running" ]_vars

\* no record is kept whose score has decayed to zero
C32_DestroyedAtZero ==
    [](\A id \in DOMAIN errorScores : errorScores[id].score > 0)

\* C32: a peer has a record only after the first report against it, and the
\* record is destroyed once its score has decayed to zero
C32_RecordLifecycle == C32_CreatedOnReport /\ C32_DestroyedAtZero

\* a query found the score of a record decayed to zero, and the record is
\* still in the map
C32_Witness ==
    \E id \in DOMAIN errorScores :
        /\ errorScores[id].score = 0
        /\ errorScores[id].lastUpdate = now
        /\ now > 0

\* ------------------------------------------------- claims on canConnect queries

\* C33: a canConnect query is read-only to an observer: the step that
\* handles it changes neither the answer of a query at any later time nor
\* whether a report at any later time signals a disconnect
C33_QueryReadOnly ==
    [][ \A c \in Callers :
          (callers[c].pc = "send" /\ callers'[c].pc = "recv")
          => LET id == callers[c].id
             IN  \A t \in now .. MaxTime :
                   /\ handleCanConnect(errorScores', opts, t, id)
                        = handleCanConnect(errorScores, opts, t, id)
                   /\ \A err \in ReportedErrors :
                        signalsDisconnect(
                            handleErrorScores(errorScores', opts, t, id, err),
                            opts, id)
                        = signalsDisconnect(
                            handleErrorScores(errorScores, opts, t, id, err),
                            opts, id) ]_vars

\* a query was handled, some time after the last update of the record of
\* its peer, and the caller has its answer to take
C33_Witness ==
    \E c \in Callers :
        /\ callers[c].pc = "recv"
        /\ callers[c].id \in DOMAIN errorScores
        /\ errorScores[callers[c].id].lastUpdate = now
        /\ now > 0
        /\ now < MaxTime

\* ---- claims on the reconnection tasks

\* the reconnection goroutines that run for the seed id
reconnecting(id) ==
    LET gs == { g \in BagToSet(reconnectGo) : g.id = id }
        RECURSIVE count(_)
        count(S) == IF S = {} THEN 0
                    ELSE LET g == CHOOSE x \in S : TRUE
                         IN  CopiesIn(g, reconnectGo) + count(S \ {g})
    IN  count(gs)

\* C34: for every static seed at most one reconnection task runs at any
\* time, whatever the interleaving of the Connected and Disconnected events
C34_OneReconnectPerSeed ==
    \A id \in initialPeers : reconnecting(id) <= 1

\* a seed has been disconnected, so that a reconnection task runs for it, and
\* is connected again while that task still runs
C34_Witness ==
    \E id \in initialPeers :
        /\ reconnecting(id) >= 1
        /\ id \in connectedPeers
        /\ hostConns[id] = 1

\* ---- claims on the workers and the host's connections

\* C35: once the host's notifications are handled, a peer has a tracked,
\* uncancelled worker exactly when the host has an open connection to it
C35_WorkerIffConnection ==
    mgrPc = "running" =>
        \A id \in Peers :
            (id \in connectedPeers /\ liveWorkers[id] > 0) <=> hostConns[id] > 0

\* a peer with two connections, of which the host has closed one
C35_Witness ==
    \E id \in Peers :
        /\ hostConns[id] = 1
        /\ events >= 3
        /\ mgrPc = "running"

\* ---- claims on the cycles of connectInitialPeers

\* C36: a cycle of the initial-peers connect loop attempts only the seeds
\* still in the pending set, so that a seed whose connect has succeeded in
\* one cycle is not dialled by a later one
C36_CycleDialsPending ==
    initGo.pc = "range" => initGo.todo \subseteq initGo.peersToConnect

\* a later cycle has begun after a cycle in which some connect succeeded and
\* some other failed
C36_Witness ==
    /\ initGo.pc = "range"
    /\ initGo.attempts >= 1
    /\ initGo.peersToConnect # {}
    /\ initGo.peersToConnect # initialPeers

\* ---- claims on the download requests

\* how many responses to the request of a topology were sent
C37_Responses(t) ==
    Cardinality({ i \in 1..Len(downloadResponseChan) :
                    downloadResponseChan[i].Topology = t })

\* how many goroutines of requestDownload run for the request of a topology
C37_Running(t) == Cardinality({ g \in downloadGo : g.Topology = t })

\* an accepted request is being served or was answered once, never both and
\* never twice; it is neither only where the scope was cancelled
C37_OneResponseAtMost ==
    \A t \in 1..requestsSent :
        /\ C37_Responses(t) + C37_Running(t) <= 1
        /\ C37_Responses(t) + C37_Running(t) = 0 => ctxDone

\* only the send of a goroutine of requestDownload adds a response, and only
\* that of its own request
C37_ResponseStep ==
    [][downloadResponseChan' # downloadResponseChan =>
          \E g \in downloadGo :
              /\ g.pc = "send"
              /\ g \notin downloadGo'
              /\ downloadResponseChan' = Append(downloadResponseChan, g.resp)
              /\ g.resp.Topology = g.Topology]_vars

\* an accepted request is answered, unless the scope is cancelled
C37_Answered ==
    \A t \in 1..MaxRequests :
        (requestsSent >= t) ~> (C37_Responses(t) = 1 \/ ctxDone)

\* C37: every download request a peer worker accepts leads to exactly one
\* response on the download-response channel, or to at most one if the
\* worker's scope is cancelled: no request is dropped, none answered twice
C37_ExactlyOneResponse ==
    []C37_OneResponseAtMost /\ C37_ResponseStep /\ C37_Answered

\* both requests were accepted and answered while the scope is not cancelled,
\* the second with the error of its call
C37_Witness ==
    /\ requestsSent = 2
    /\ ~ctxDone
    /\ C37_Responses(1) = 1
    /\ C37_Responses(2) = 1
    /\ downloadGo = {}
    /\ \E i \in 1..Len(downloadResponseChan) :
          downloadResponseChan[i].Topology = 2 /\ downloadResponseChan[i].Err = "rpc error"

\* ---- claims on the delivery of the last update

\* C38: an interest update that nodeUpdateLoop received, and after which no
\* other arrives, is delivered to the worker loop in the end and becomes its
\* lastNodeUpdate, where the worker loop keeps returning to its select and
\* the scope is not cancelled
C38_LastUpdateDelivered ==
    \A k \in 1..MaxUpdates :
        (updatesSent = k) ~>
            (peerLoop.lastNodeUpdate = Update(k) \/ updatesSent > k \/ ctxDone)

\* the second update was received while the first was held, the worker loop
\* being in a poll cycle, and was then delivered
C38_Witness ==
    /\ updatesSent = 2
    /\ peerLoop.lastNodeUpdate = Update(2)
    /\ ~nodeUpdateGo.hasValue
    /\ pollFailed
    /\ ~ctxDone

\* ---- claims on the handler task and its emissions

\* the handler task, once started and until it returns, takes the request
\* of every caller that sends one
C39_AnswersQueries ==
    \A c \in Callers :
        (handlerPc = "running" /\ callers[c].pc = "send") => ENABLED RecvCanConnect(c)

\* the handler task, once started and until it returns, takes every report
\* the bounds of the run leave room for
C39_ProcessesReports ==
    \A id \in Peers, err \in ReportedErrors :
        LET scores == handleErrorScores(errorScores, opts, now, id, err)
        IN  ( /\ handlerPc = "running"
              /\ scores[id].score <= MaxScore
              /\ signalsDisconnect(scores, opts, id) =>
                     SumOver(disconnectGo, Peers)
                        + SumOver(disconnectPeerChan, Peers) < MaxEmit )
            => ENABLED RecvError(id, err)

\* once the scope is cancelled no emission stays pending, read or not
C39_PendingAbandoned ==
    ctxDone ~> (\A id \in Peers : disconnectGo[id] = 0)

\* C39: the handler task never blocks on the emission of a disconnect
\* signal: with emissions pending that nobody reads it goes on processing
\* reports and answering canConnect queries, and every pending emission is
\* abandoned when the scope is cancelled
C39_HandlerNeverBlocks ==
    [](C39_AnswersQueries /\ C39_ProcessesReports) /\ C39_PendingAbandoned

\* an emission is pending and nothing was read from the disconnect channel,
\* while the handler task has a query to answer and a report it can take
C39_Witness ==
    /\ \E id \in Peers : disconnectGo[id] > 0
    /\ \A id \in Peers : disconnectPeerChan[id] = 0
    /\ handlerPc = "running"
    /\ ~ctxDone
    /\ \E c \in Callers : callers[c].pc = "send" /\ ENABLED RecvCanConnect(c)
    /\ \E id \in Peers, err \in ReportedErrors : ENABLED RecvError(id, err)

\* ---- claims on the poll cycle

\* the request of a cycle is the window of the update the worker loop had
\* when the cycle began, and no update is delivered during the cycle
C40_RequestsWindow ==
    peerLoop.pc \in { "rpc", "forward" } =>
        peerLoop.req = [ BlockHeight |-> peerLoop.lastNodeUpdate.InterestStartHeight,
                         NumBlocks   |-> peerLoop.lastNodeUpdate.InterestNumBlocks ]

\* the messages forwarded so far are those of the first topologies of the
\* reply, one each and in the order of the reply, with the worker's PeerID
C40_ForwardsInOrder ==
    peerLoop.pc = "forward" =>
        /\ Len(peerLoop.forwarded) + peerLoop.todo = Len(peerLoop.reply)
        /\ \A i \in 1..Len(peerLoop.forwarded) :
              peerLoop.forwarded[i] = [ PeerID |-> peerID, Block |-> peerLoop.reply[i] ]

\* a cycle stops before the last topology only where the scope is cancelled,
\* and the update of the worker loop changes only at its select
C40_CycleSteps ==
    [][ /\ (peerLoop.pc = "forward" /\ peerLoop'.pc # "forward" /\ peerLoop.todo > 0)
              => ctxDone
        /\ peerLoop'.lastNodeUpdate # peerLoop.lastNodeUpdate
              => (peerLoop.pc = "select" /\ peerLoop'.pc = "select") ]_vars

\* C40: a poll cycle requests the height window of the most recent update
\* delivered to the worker loop before the cycle began, and forwards one
\* PeerHasBlock with the worker's PeerID for each topology of the reply, in
\* the order of the reply, stopping early only on cancellation
C40_PollCycle ==
    [](C40_RequestsWindow /\ C40_ForwardsInOrder) /\ C40_CycleSteps

\* the second update was delivered, the cycle requested its window, the
\* reply held two topologies and both were forwarded, without cancellation
C40_Witness ==
    /\ peerLoop.pc = "forward"
    /\ peerLoop.lastNodeUpdate = Update(2)
    /\ peerLoop.req = [ BlockHeight |-> 2, NumBlocks |-> 1 ]
    /\ Len(peerLoop.reply) = 2
    /\ peerLoop.todo = 0
    /\ peerLoop.forwarded = << [ PeerID |-> peerID, Block |-> 2 ],
                               [ PeerID |-> peerID, Block |-> 3 ] >>
    /\ ~ctxDone

====
